---- MODULE Spec2Model ----
(***************************************************************************)
(* Record storage of gator-core: the template-method base contract         *)
(* (BaseRecordStorage), the in-memory backend (InMemoryRecordStorage) and  *)
(* the filesystem backend (FileRecordStorage).                             *)
(*                                                                         *)
(* A harness applies every public operation to one in-memory storage and   *)
(* to one filesystem storage; each backend therefore sees every sequence   *)
(* of operations.  Python strings used as ids are sequences of one         *)
(* character strings, so that _safe_filename can be computed character by  *)
(* character.  Ids are non-empty.  io is the disposition of the            *)
(* environment towards the current call: under Spec it is "reliable" for   *)
(* ever (no I/O call fails); under SpecIO the I/O made by a primitive of   *)
(* the filesystem backend may fail, with an OSError or with another        *)
(* exception, before the primitive has changed anything.  callers holds    *)
(* the threads that are inside put on the filesystem storage, each with    *)
(* its arguments and its position in the code; there are none except       *)
(* under SpecRace, where the calls of two threads interleave.  hashing     *)
(* holds the two values given to the content hash under SpecHash and the   *)
(* digests computed so far; it is idle elsewhere.  objects is the          *)
(* collection of stored Record documents and synced the last call of       *)
(* Record.sync with its outcome (SpecSync).  _parent and _sub_institutions *)
(* are the fields of that name of every Institution, by institution code,  *)
(* and edited the last operation made on the tree (SpecTree).  compared    *)
(* holds the sessions given to the comparison operators of Session or to   *)
(* sorted(), and what these returned (SpecSession).                        *)
(***************************************************************************)
EXTENDS Integers, Sequences, FiniteSets, TLC

VARIABLES buckets, disk, last, prev, nops, io, callers, hashing,
          objects, synced, _parent, _sub_institutions, edited, compared

(* The state of the document models, which the storages never touch. *)
models == <<objects, synced, _parent, _sub_institutions, edited, compared>>

vars == <<buckets, disk, last, prev, nops, io, callers, hashing, models>>

(* Bound on the number of public operations applied by the harness. *)
MaxOps == 3

(***************************************************************************)
(* Inputs                                                                  *)
(***************************************************************************)

(* The argument None of Python. *)
None == <<"None">>

(* Bucket ids: one hexadecimal id and two ids with the same sanitized form. *)
BucketIds == { <<"e", "4">>, <<"t", "-">>, <<"t", "_">> }

(* Record ids: one plain id and two ids with the same sanitized form. *)
RecordIds == { <<"k">>, <<"r", ".">>, <<"r", "_">> }

(* The values uuid.uuid4().hex is drawn from. *)
UuidHex == { <<"e", "4">> }

(* A record is a dict from field names to values.  A value is the sequence *)
(* of the tokens of its literal: "[" "]" delimit a list, "(" ")" a tuple,  *)
(* "b'z'" is a bytes object, any other token is a str or a number.         *)
RecBob == ("name" :> <<"Bob">>)

RecAda == ("name" :> <<"Ada">> @@ "tags" :> <<"[", "x", "[", "b'z'", "]", "]">>)

Records == { RecBob, RecAda }

NoRecord == <<>>

EmptyDict == <<>>

(***************************************************************************)
(* Results of a call: what it returns or raises.                           *)
(***************************************************************************)

(* What a failing I/O call raises: an OSError, or an exception that is not *)
(* an OSError.                                                             *)
Failures == { "OSError", "RuntimeError" }

Errors == { "ValueError", "KeyError", "FileNotFoundError" } \cup Failures

Outcome(tag, rec, recs, ids, id) ==
    [tag |-> tag, rec |-> rec, recs |-> recs, ids |-> ids, id |-> id]

RetBool(x) == Outcome(IF x THEN "True" ELSE "False", NoRecord, EmptyDict, {}, None)

RetNone == Outcome("None", NoRecord, EmptyDict, {}, None)

RetRecord(r) == Outcome("record", r, EmptyDict, {}, None)

RetMapping(m) == Outcome("mapping", NoRecord, m, {}, None)

RetList(s) == Outcome("list", NoRecord, EmptyDict, s, None)

RetStr(i) == Outcome("str", NoRecord, EmptyDict, {}, i)

Raise(e) == Outcome(e, NoRecord, EmptyDict, {}, None)

IsRaise(o) == o.tag \in Errors

(* A call's effect: the storage state it leaves and its outcome. *)
Eff(st, out) == [st |-> st, out |-> out]

(***************************************************************************)
(* dict helpers                                                            *)
(***************************************************************************)

DictSet(d, k, v) == [x \in (DOMAIN d) \cup {k} |-> IF x = k THEN v ELSE d[x]]

DictDel(d, k) == [x \in (DOMAIN d) \ {k} |-> d[x]]

(***************************************************************************)
(* InMemoryRecordStorage: the state is the dict _buckets.                  *)
(***************************************************************************)

Mem_bucket_exists(S, bucket_id) == RetBool(bucket_id \in DOMAIN S)

(* self._buckets[bucket_id] raises KeyError when the bucket is missing. *)
Mem_record_exists(S, bucket_id, record_id) ==
    IF bucket_id \notin DOMAIN S
    THEN Raise("KeyError")
    ELSE RetBool(record_id \in DOMAIN S[bucket_id])

Mem_get_buckets(S) == RetList(DOMAIN S)

Mem_bucket_new(S, bucket_id) == DictSet(S, bucket_id, EmptyDict)

Mem_bucket_del(S, bucket_id) == Eff(DictDel(S, bucket_id), RetBool(TRUE))

(* Mutant: every bucket is emptied. *)
Mem_bucket_clear_Every(S, bucket_id) == [b \in DOMAIN S |-> EmptyDict]

Mem_bucket_clear(S, bucket_id) == DictSet(S, bucket_id, EmptyDict)

Mem_record_get(S, bucket_id, record_id) == S[bucket_id][record_id]

Mem_bucket_get(S, bucket_id) == S[bucket_id]

(* Mutant: the overwrite flag is not consulted. *)
Mem_record_put_NoGate(S, bucket_id, record_id, record, overwrite) ==
    Eff(DictSet(S, bucket_id, DictSet(S[bucket_id], record_id, record)), RetBool(TRUE))

(* Mutant: an existing record is updated field by field (dict.update) *)
(* instead of being replaced.                                         *)
Mem_record_put_Merge(S, bucket_id, record_id, record, overwrite) ==
    IF record_id \in DOMAIN S[bucket_id] /\ ~overwrite
    THEN Eff(S, RetBool(FALSE))
    ELSE LET old == IF record_id \in DOMAIN S[bucket_id]
                    THEN S[bucket_id][record_id] ELSE EmptyDict
         IN  Eff(DictSet(S, bucket_id,
                         DictSet(S[bucket_id], record_id, record @@ old)),
                 RetBool(TRUE))

Mem_record_put(S, bucket_id, record_id, record, overwrite) ==
    IF record_id \in DOMAIN S[bucket_id] /\ ~overwrite
    THEN Eff(S, RetBool(FALSE))
    ELSE Eff(DictSet(S, bucket_id, DictSet(S[bucket_id], record_id, record)),
             RetBool(TRUE))

(* Mutant: del self._buckets[bucket_id] in place of the record. *)
Mem_record_del_Bucket(S, bucket_id, record_id) ==
    Eff(DictDel(S, bucket_id), RetBool(TRUE))

Mem_record_del(S, bucket_id, record_id) ==
    Eff(DictSet(S, bucket_id, DictDel(S[bucket_id], record_id)), RetBool(TRUE))

(***************************************************************************)
(* FileRecordStorage: the state is the directory tree under _root_dir.     *)
(* root tells whether _root_dir exists; dirs maps the name of each         *)
(* subdirectory to its files, a dict from file name to file content.       *)
(***************************************************************************)

LowerCase == { "a", "b", "c", "d", "e", "f", "g", "h", "i", "j", "k", "l", "m",
               "n", "o", "p", "q", "r", "s", "t", "u", "v", "w", "x", "y", "z" }

UpperCase == { "A", "B", "C", "D", "E", "F", "G", "H", "I", "J", "K", "L", "M",
               "N", "O", "P", "Q", "R", "S", "T", "U", "V", "W", "X", "Y", "Z" }

Digits == { "0", "1", "2", "3", "4", "5", "6", "7", "8", "9" }

(* The character class [a-zA-Z0-9_]. *)
SafeChars == LowerCase \cup UpperCase \cup Digits \cup { "_" }

(* Mutant: the character class also keeps the dot, [^a-zA-Z0-9_.]. *)
_safe_filename_KeepDot(fn) ==
    [i \in 1..Len(fn) |-> IF fn[i] \in SafeChars \cup { "." } THEN fn[i] ELSE "_"]

(* re.sub(r"[^a-zA-Z0-9_]", "_", fn) *)
_safe_filename(fn) ==
    [i \in 1..Len(fn) |-> IF fn[i] \in SafeChars THEN fn[i] ELSE "_"]

(* The path root/<name>, as the name of the subdirectory. *)
_get_bucket_dir(bucket_id) == _safe_filename(bucket_id)

(* The path root/<dir>/<file>. *)
_get_record_path(bucket_id, record_id) ==
    [dir |-> _get_bucket_dir(bucket_id), file |-> _safe_filename(record_id)]

(* pathlib's PurePath.stem: the name without its last suffix. *)
Stem(name) ==
    LET dots == { i \in 1..Len(name) : name[i] = "." }
    IN  IF dots = {}
        THEN name
        ELSE LET j == CHOOSE i \in dots : \A o \in dots : o <= i
             IN  IF 1 < j /\ j < Len(name) THEN SubSeq(name, 1, j - 1) ELSE name

(* Mutant: use_bin_type is left out, so a bytes object is written with *)
(* the raw type of a str and is read back as a str.                    *)
PackToken_NoBinType(t) ==
    IF t \in { "[", "(" } THEN "array{"
    ELSE IF t \in { "]", ")" } THEN "}"
    ELSE IF t = "b'z'" THEN "z"
    ELSE t

(* msgpack.packb(record, use_bin_type=True): a list and a tuple are both *)
(* written as a msgpack array, a bytes object as bin, a str as str.      *)
PackToken(t) ==
    IF t \in { "[", "(" } THEN "array{"
    ELSE IF t \in { "]", ")" } THEN "}"
    ELSE IF t = "b'z'" THEN "bin(z)"
    ELSE t

packb(record) ==
    [f \in DOMAIN record |-> [i \in 1..Len(record[f]) |-> PackToken(record[f][i])]]

(* msgpack.unpackb(..., use_list=False, raw=False): an array is read as a *)
(* tuple, bin as a bytes object, str as a str.                            *)
UnpackToken(t) ==
    IF t = "array{" THEN "("
    ELSE IF t = "}" THEN ")"
    ELSE IF t = "bin(z)" THEN "b'z'"
    ELSE t

unpackb(bytes) ==
    [f \in DOMAIN bytes |-> [i \in 1..Len(bytes[f]) |-> UnpackToken(bytes[f][i])]]

_unpack_record(F, record_path) == unpackb(F.dirs[record_path.dir][record_path.file])

PathExists(F, dir) == F.root /\ dir \in DOMAIN F.dirs

File_bucket_exists(F, bucket_id) == RetBool(PathExists(F, _get_bucket_dir(bucket_id)))

File_record_exists(F, bucket_id, record_id) ==
    LET record_path == _get_record_path(bucket_id, record_id)
    IN  RetBool(/\ PathExists(F, record_path.dir)
                /\ record_path.file \in DOMAIN F.dirs[record_path.dir])

(* iterdir() raises FileNotFoundError when _root_dir does not exist. *)
File_get_buckets(F) ==
    IF io \in Failures THEN Raise(io)
    ELSE IF ~F.root THEN Raise("FileNotFoundError") ELSE RetList(DOMAIN F.dirs)

(* bucket_dir.mkdir(parents=True) *)
File_bucket_new(F, bucket_id) ==
    [root |-> TRUE, dirs |-> DictSet(F.dirs, _get_bucket_dir(bucket_id), EmptyDict)]

(* Mutant: the files are removed but the directory is left behind. *)
File_bucket_del_KeepDir(F, bucket_id) ==
    Eff([F EXCEPT !.dirs = DictSet(F.dirs, _get_bucket_dir(bucket_id), EmptyDict)],
        RetBool(TRUE))

(* shutil.rmtree(bucket_dir); an OSError is caught and reported as False *)
File_bucket_del(F, bucket_id) ==
    IF io = "OSError" THEN Eff(F, RetBool(FALSE))
    ELSE IF io \in Failures THEN Eff(F, Raise(io))
    ELSE
    Eff([F EXCEPT !.dirs = DictDel(F.dirs, _get_bucket_dir(bucket_id))], RetBool(TRUE))

(* Mutant: the bucket directory is removed with its files (rmtree). *)
File_bucket_clear_Rmtree(F, bucket_id) ==
    [F EXCEPT !.dirs = DictDel(F.dirs, _get_bucket_dir(bucket_id))]

(* unlink every entry of the bucket directory *)
File_bucket_clear(F, bucket_id) ==
    [F EXCEPT !.dirs = DictSet(F.dirs, _get_bucket_dir(bucket_id), EmptyDict)]

File_record_get(F, bucket_id, record_id) ==
    _unpack_record(F, _get_record_path(bucket_id, record_id))

(* records[record_path.stem] = unpack(record_path) for every file *)
File_bucket_get(F, bucket_id) ==
    LET dir   == _get_bucket_dir(bucket_id)
        files == DOMAIN F.dirs[dir]
    IN  [record_id \in { Stem(n) : n \in files } |->
            _unpack_record(F, [dir |-> dir,
                               file |-> CHOOSE n \in files : Stem(n) = record_id])]

(* Mutant: the file is named by the raw record id, not the sanitized one. *)
File_record_put_RawName(F, bucket_id, record_id, record, overwrite) ==
    LET record_path == _get_record_path(bucket_id, record_id)
        dir         == F.dirs[record_path.dir]
    IN  IF record_path.file \in DOMAIN dir /\ ~overwrite
        THEN Eff(F, RetBool(FALSE))
        ELSE Eff([F EXCEPT !.dirs = DictSet(F.dirs, record_path.dir,
                                            DictSet(dir, record_id, packb(record)))],
                 RetBool(TRUE))

File_record_put(F, bucket_id, record_id, record, overwrite) ==
    LET record_path == _get_record_path(bucket_id, record_id)
        dir         == F.dirs[record_path.dir]
    IN  IF record_path.file \in DOMAIN dir /\ ~overwrite
        THEN Eff(F, RetBool(FALSE))
        ELSE IF io \in Failures THEN Eff(F, Raise(io))
        ELSE Eff([F EXCEPT !.dirs = DictSet(F.dirs, record_path.dir,
                                            DictSet(dir, record_path.file, packb(record)))],
                 RetBool(TRUE))

(* record_path.unlink(); an OSError is caught and reported as False *)
File_record_del(F, bucket_id, record_id) ==
    LET record_path == _get_record_path(bucket_id, record_id)
    IN  IF io = "OSError" THEN Eff(F, RetBool(FALSE))
        ELSE IF io \in Failures THEN Eff(F, Raise(io))
        ELSE
        Eff([F EXCEPT !.dirs = DictSet(F.dirs, record_path.dir,
                                       DictDel(F.dirs[record_path.dir], record_path.file))],
            RetBool(TRUE))

(***************************************************************************)
(* The backend of a storage object: be is "mem" for InMemoryRecordStorage  *)
(* and "fs" for FileRecordStorage; S is the state of that backend.  The    *)
(* following operators are the dynamic dispatch of the abstract methods.   *)
(***************************************************************************)

Backends == { "mem", "fs" }

bucket_exists(be, S, bucket_id) ==
    IF be = "mem" THEN Mem_bucket_exists(S, bucket_id)
    ELSE File_bucket_exists(S, bucket_id)

record_exists(be, S, bucket_id, record_id) ==
    IF be = "mem" THEN Mem_record_exists(S, bucket_id, record_id)
    ELSE File_record_exists(S, bucket_id, record_id)

get_buckets(be, S) ==
    IF be = "mem" THEN Mem_get_buckets(S) ELSE File_get_buckets(S)

_bucket_new(be, S, bucket_id) ==
    IF be = "mem" THEN Mem_bucket_new(S, bucket_id) ELSE File_bucket_new(S, bucket_id)

_bucket_del(be, S, bucket_id) ==
    IF be = "mem" THEN Mem_bucket_del(S, bucket_id) ELSE File_bucket_del(S, bucket_id)

_bucket_clear(be, S, bucket_id) ==
    IF be = "mem" THEN Mem_bucket_clear(S, bucket_id) ELSE File_bucket_clear(S, bucket_id)

_record_get(be, S, bucket_id, record_id) ==
    IF be = "mem" THEN Mem_record_get(S, bucket_id, record_id)
    ELSE File_record_get(S, bucket_id, record_id)

_bucket_get(be, S, bucket_id) ==
    IF be = "mem" THEN Mem_bucket_get(S, bucket_id) ELSE File_bucket_get(S, bucket_id)

_record_put(be, S, bucket_id, record_id, record, overwrite) ==
    IF be = "mem" THEN Mem_record_put(S, bucket_id, record_id, record, overwrite)
    ELSE File_record_put(S, bucket_id, record_id, record, overwrite)

_record_del(be, S, bucket_id, record_id) ==
    IF be = "mem" THEN Mem_record_del(S, bucket_id, record_id)
    ELSE File_record_del(S, bucket_id, record_id)

(* The I/O of a primitive of the filesystem backend fails: the primitives  *)
(* _bucket_new (mkdir), _bucket_clear (iterdir, unlink), _record_get and   *)
(* _bucket_get (open, read) catch nothing, so the error leaves them.       *)
PrimitiveFails(be) == be = "fs" /\ io \in Failures

(***************************************************************************)
(* BaseRecordStorage: the public operations.  Each yields Eff(state after  *)
(* the call, outcome of the call).                                         *)
(***************************************************************************)

(* Mutant: the existence check is skipped. *)
make_bucket_NoCheck(be, S, bucket_id, uuid) ==
    LET id == IF bucket_id = None THEN uuid ELSE bucket_id
    IN  Eff(_bucket_new(be, S, id), RetStr(id))

(* uuid is the value uuid.uuid4().hex yields if it is asked for. *)
make_bucket(be, S, bucket_id, uuid) ==
    LET id == IF bucket_id = None THEN uuid ELSE bucket_id
    IN  IF bucket_exists(be, S, id).tag = "True"
        THEN Eff(S, Raise("ValueError"))
        ELSE IF PrimitiveFails(be) THEN Eff(S, Raise(io))
        ELSE Eff(_bucket_new(be, S, id), RetStr(id))

(* Mutant: the try/except around _bucket_del is left out. *)
delete_bucket_NoTry(be, S, bucket_id) ==
    IF bucket_exists(be, S, bucket_id).tag # "True"
    THEN Eff(S, RetBool(FALSE))
    ELSE _bucket_del(be, S, bucket_id)

delete_bucket(be, S, bucket_id) ==
    IF bucket_exists(be, S, bucket_id).tag # "True"
    THEN Eff(S, RetBool(FALSE))
    ELSE LET d == _bucket_del(be, S, bucket_id)
         IN  IF IsRaise(d.out) THEN Eff(d.st, RetBool(FALSE)) ELSE d

(* Mutant: the loop stops after the first bucket. *)
DeleteEach_First(be, S, ids) ==
    IF ids = {}
    THEN S
    ELSE delete_bucket(be, S, CHOOSE x \in ids : TRUE).st

RECURSIVE DeleteEach(_, _, _)
(* for bucket_id in ids: self.delete_bucket(bucket_id) *)
DeleteEach(be, S, ids) ==
    IF ids = {}
    THEN S
    ELSE LET bucket_id == CHOOSE x \in ids : TRUE
         IN  DeleteEach(be, delete_bucket(be, S, bucket_id).st, ids \ {bucket_id})

delete_all_buckets(be, S) ==
    LET l == get_buckets(be, S)
    IN  IF IsRaise(l) THEN Eff(S, l) ELSE Eff(DeleteEach(be, S, l.ids), RetNone)

clear(be, S, bucket_id) ==
    IF bucket_exists(be, S, bucket_id).tag # "True"
    THEN Eff(S, Raise("ValueError"))
    ELSE IF PrimitiveFails(be) THEN Eff(S, Raise(io))
    ELSE Eff(_bucket_clear(be, S, bucket_id), RetNone)

(* Mutant: looking into a missing bucket creates it (setdefault). *)
get_Setdefault(be, S, bucket_id, record_id) ==
    IF bucket_exists(be, S, bucket_id).tag # "True"
    THEN Eff(_bucket_new(be, S, bucket_id), RetNone)
    ELSE LET e == record_exists(be, S, bucket_id, record_id)
         IN  IF e.tag # "True" THEN Eff(S, RetNone)
             ELSE Eff(S, RetRecord(_record_get(be, S, bucket_id, record_id)))

get(be, S, bucket_id, record_id) ==
    LET e == record_exists(be, S, bucket_id, record_id)
    IN  IF IsRaise(e) THEN Eff(S, e)
        ELSE IF e.tag # "True" THEN Eff(S, RetNone)
        ELSE IF PrimitiveFails(be) THEN Eff(S, Raise(io))
        ELSE Eff(S, RetRecord(_record_get(be, S, bucket_id, record_id)))

(* Mutant: an empty bucket is taken for a missing one (falsy dict). *)
get_all_Falsy(be, S, bucket_id) ==
    IF bucket_exists(be, S, bucket_id).tag # "True"
    THEN Eff(S, RetNone)
    ELSE IF _bucket_get(be, S, bucket_id) = EmptyDict
         THEN Eff(S, RetNone)
         ELSE Eff(S, RetMapping(_bucket_get(be, S, bucket_id)))

get_all(be, S, bucket_id) ==
    IF bucket_exists(be, S, bucket_id).tag # "True"
    THEN Eff(S, RetNone)
    ELSE IF PrimitiveFails(be) THEN Eff(S, Raise(io))
    ELSE Eff(S, RetMapping(_bucket_get(be, S, bucket_id)))

(* Mutant: a missing bucket is created whatever auto_create is. *)
put_AlwaysCreate(be, S, bucket_id, record_id, record, overwrite, auto_create) ==
    IF bucket_exists(be, S, bucket_id).tag # "True"
    THEN LET m == make_bucket(be, S, bucket_id, None)
         IN  IF IsRaise(m.out) THEN m
             ELSE _record_put(be, m.st, bucket_id, record_id, record, overwrite)
    ELSE _record_put(be, S, bucket_id, record_id, record, overwrite)

put(be, S, bucket_id, record_id, record, overwrite, auto_create) ==
    IF bucket_exists(be, S, bucket_id).tag # "True"
    THEN IF auto_create
         THEN LET m == make_bucket(be, S, bucket_id, None)
              IN  IF IsRaise(m.out) THEN m
                  ELSE _record_put(be, m.st, bucket_id, record_id, record, overwrite)
         ELSE Eff(S, RetBool(FALSE))
    ELSE _record_put(be, S, bucket_id, record_id, record, overwrite)

delete(be, S, bucket_id, record_id) ==
    LET e == record_exists(be, S, bucket_id, record_id)
    IN  IF IsRaise(e) THEN Eff(S, e)
        ELSE IF e.tag # "True" THEN Eff(S, RetBool(FALSE))
        ELSE _record_del(be, S, bucket_id, record_id)

(***************************************************************************)
(* The state machine.  buckets is the _buckets dict of the in-memory       *)
(* storage, disk the directory tree of the filesystem storage.  last is    *)
(* the last call made and what it yielded on each backend, prev the state  *)
(* of both storages before that call, nops the number of calls made.       *)
(***************************************************************************)

Call(op, bucket_id, record_id, record, overwrite, auto_create, m, f) ==
    [op |-> op, bucket_id |-> bucket_id, record_id |-> record_id, record |-> record,
     overwrite |-> overwrite, auto_create |-> auto_create, mem |-> m, fs |-> f]

(* The storages after construction. *)
InitStorage ==
    /\ buckets = EmptyDict
    /\ disk \in { [root |-> r, dirs |-> EmptyDict] : r \in BOOLEAN }
    /\ last = Call("init", None, None, NoRecord, FALSE, FALSE, RetNone, RetNone)
    /\ nops = 0

(* No thread is inside a call. *)
NoCallers == <<>>

(* The content hash is not in use. *)
NoHashing == <<>>

(* The document models are not in use: the collection is empty and no call *)
(* has been made. *)
NoCall == <<>>

(* The codes of the institutions there are. *)
Institutions == { "a", "b", "c" }

ModelsIdle ==
    /\ objects = <<>>
    /\ synced = NoCall
    /\ _parent = [i \in Institutions |-> "None"]
    /\ _sub_institutions = [i \in Institutions |-> <<>>]
    /\ edited = NoCall
    /\ compared = NoCall

Init ==
    /\ InitStorage
    /\ io = "reliable"
    /\ callers = NoCallers
    /\ hashing = NoHashing
    /\ ModelsIdle
    /\ prev = [buckets |-> buckets, disk |-> disk, io |-> io]

Step(op, bucket_id, record_id, record, overwrite, auto_create, m, f) ==
    /\ nops < MaxOps
    /\ buckets' = m.st
    /\ disk' = f.st
    /\ last' = Call(op, bucket_id, record_id, record, overwrite, auto_create, m.out, f.out)
    /\ prev' = [buckets |-> buckets, disk |-> disk, io |-> io]
    /\ nops' = nops + 1
    /\ io' \in (IF io = "reliable" THEN { "reliable" } ELSE { "ok" } \cup Failures)
    /\ UNCHANGED <<callers, hashing, models>>

MakeBucket ==
    \E bucket_id \in BucketIds \cup {None}, uuid \in UuidHex :
        Step("make_bucket", bucket_id, None, NoRecord, FALSE, FALSE,
             make_bucket("mem", buckets, bucket_id, uuid),
             make_bucket("fs", disk, bucket_id, uuid))

DeleteBucket ==
    \E bucket_id \in BucketIds :
        Step("delete_bucket", bucket_id, None, NoRecord, FALSE, FALSE,
             delete_bucket("mem", buckets, bucket_id),
             delete_bucket("fs", disk, bucket_id))

GetBuckets ==
    Step("get_buckets", None, None, NoRecord, FALSE, FALSE,
         Eff(buckets, get_buckets("mem", buckets)),
         Eff(disk, get_buckets("fs", disk)))

DeleteAllBuckets ==
    Step("delete_all_buckets", None, None, NoRecord, FALSE, FALSE,
         delete_all_buckets("mem", buckets),
         delete_all_buckets("fs", disk))

Clear ==
    \E bucket_id \in BucketIds :
        Step("clear", bucket_id, None, NoRecord, FALSE, FALSE,
             clear("mem", buckets, bucket_id),
             clear("fs", disk, bucket_id))

Get ==
    \E bucket_id \in BucketIds, record_id \in RecordIds :
        Step("get", bucket_id, record_id, NoRecord, FALSE, FALSE,
             get("mem", buckets, bucket_id, record_id),
             get("fs", disk, bucket_id, record_id))

GetAll ==
    \E bucket_id \in BucketIds :
        Step("get_all", bucket_id, None, NoRecord, FALSE, FALSE,
             get_all("mem", buckets, bucket_id),
             get_all("fs", disk, bucket_id))

Put ==
    \E bucket_id \in BucketIds, record_id \in RecordIds, record \in Records,
       overwrite \in BOOLEAN, auto_create \in BOOLEAN :
        Step("put", bucket_id, record_id, record, overwrite, auto_create,
             put("mem", buckets, bucket_id, record_id, record, overwrite, auto_create),
             put("fs", disk, bucket_id, record_id, record, overwrite, auto_create))

Delete ==
    \E bucket_id \in BucketIds, record_id \in RecordIds :
        Step("delete", bucket_id, record_id, NoRecord, FALSE, FALSE,
             delete("mem", buckets, bucket_id, record_id),
             delete("fs", disk, bucket_id, record_id))

BucketExists ==
    \E bucket_id \in BucketIds :
        Step("bucket_exists", bucket_id, None, NoRecord, FALSE, FALSE,
             Eff(buckets, bucket_exists("mem", buckets, bucket_id)),
             Eff(disk, bucket_exists("fs", disk, bucket_id)))

RecordExists ==
    \E bucket_id \in BucketIds, record_id \in RecordIds :
        Step("record_exists", bucket_id, record_id, NoRecord, FALSE, FALSE,
             Eff(buckets, record_exists("mem", buckets, bucket_id, record_id)),
             Eff(disk, record_exists("fs", disk, bucket_id, record_id)))

Next ==
    \/ MakeBucket
    \/ DeleteBucket
    \/ GetBuckets
    \/ DeleteAllBuckets
    \/ Clear
    \/ Get
    \/ GetAll
    \/ Put
    \/ Delete
    \/ BucketExists
    \/ RecordExists

Spec == Init /\ [][Next]_vars

TypeOK ==
    /\ DOMAIN buckets \subseteq BucketIds
    /\ disk.root \in BOOLEAN
    /\ nops \in 0..MaxOps
    /\ io \in { "reliable", "ok" } \cup Failures
    /\ prev.io \in { "reliable", "ok" } \cup Failures

(***************************************************************************)
(* Observers used by the properties.                                       *)
(***************************************************************************)

(* The state of a backend now, and before the last call. *)
St(be) == IF be = "mem" THEN buckets ELSE disk

Pre(be) == IF be = "mem" THEN prev.buckets ELSE prev.disk

(* What the last call yielded on a backend. *)
Res(be) == IF be = "mem" THEN last.mem ELSE last.fs

HasBucket(be, S, b) == bucket_exists(be, S, b).tag = "True"

(* The record (b, k) is present: its bucket exists and holds it. *)
HasRecord(be, S, b, k) ==
    HasBucket(be, S, b) /\ record_exists(be, S, b, k).tag = "True"

(* A value with every list turned into a tuple: two records are            *)
(* structurally equal up to the sequence type iff their AsTuples agree.    *)
AsTuples(record) ==
    [f \in DOMAIN record |->
        [i \in 1..Len(record[f]) |->
            IF record[f][i] = "[" THEN "("
            ELSE IF record[f][i] = "]" THEN ")"
            ELSE record[f][i]]]

(* What get(b, k) is expected to return for a stored record v: v itself on *)
(* the in-memory backend, v with its lists as tuples on the filesystem.    *)
Stored(be, v) == IF be = "mem" THEN v ELSE AsTuples(v)

(***************************************************************************)
(* C1 (as stated): for every backend, once put(b, k, v, auto_create=True)  *)
(* has returned true, bucket b exists, record_exists(b, k) is true and     *)
(* get(b, k) returns v.                                                    *)
(***************************************************************************)
C1_PutThenGetReturnsV ==
    \A be \in Backends :
        (last.op = "put" /\ last.auto_create /\ Res(be).tag = "True") =>
            /\ HasBucket(be, St(be), last.bucket_id)
            /\ record_exists(be, St(be), last.bucket_id, last.record_id).tag = "True"
            /\ get(be, St(be), last.bucket_id, last.record_id).out = RetRecord(last.record)

(***************************************************************************)
(* C1 (amended): for every backend, once put(b, k, v, auto_create=True)    *)
(* has returned true, bucket b exists, record_exists(b, k) is true and     *)
(* get(b, k) returns v on the in-memory backend and, on the filesystem     *)
(* backend, v with every list read back as a tuple.                        *)
(***************************************************************************)
C1_PutThenGet ==
    \A be \in Backends :
        (last.op = "put" /\ last.auto_create /\ Res(be).tag = "True") =>
            /\ HasBucket(be, St(be), last.bucket_id)
            /\ record_exists(be, St(be), last.bucket_id, last.record_id).tag = "True"
            /\ get(be, St(be), last.bucket_id, last.record_id).out
                   = RetRecord(Stored(be, last.record))

(* A put with auto_create that succeeded on both backends, the bucket      *)
(* missing before the call, the record holding a list.                     *)
C1_Witness ==
    /\ last.op = "put" /\ last.auto_create
    /\ last.record = RecAda
    /\ \A be \in Backends :
        /\ Res(be).tag = "True"
        /\ ~HasBucket(be, Pre(be), last.bucket_id)

(***************************************************************************)
(* C2: overwrite gate.  If record (b, k) is present, put(b, k, v2) with    *)
(* overwrite=False returns false, get(b, k) returns what it returned       *)
(* before, and no bucket or record of the storage is changed.              *)
(***************************************************************************)
C2_OverwriteGate ==
    \A be \in Backends :
        (/\ last.op = "put" /\ ~last.overwrite
         /\ HasRecord(be, Pre(be), last.bucket_id, last.record_id)) =>
            /\ Res(be) = RetBool(FALSE)
            /\ St(be) = Pre(be)
            /\ get(be, St(be), last.bucket_id, last.record_id).out
                   = get(be, Pre(be), last.bucket_id, last.record_id).out
            /\ get(be, St(be), last.bucket_id, last.record_id).out.tag = "record"

(* A refused put of a record v2 over a present record v1 that differs. *)
C2_Witness ==
    /\ last.op = "put" /\ ~last.overwrite
    /\ \A be \in Backends :
        /\ HasRecord(be, Pre(be), last.bucket_id, last.record_id)
        /\ Res(be).tag = "False"
        /\ AsTuples(get(be, Pre(be), last.bucket_id, last.record_id).out.rec)
               # AsTuples(last.record)

(***************************************************************************)
(* C3: put(b, k, v) with auto_create=False on a bucket b that does not     *)
(* exist returns false and mutates nothing, whatever overwrite is: b still *)
(* does not exist, get_buckets() is unchanged, no record was written.      *)
(***************************************************************************)
C3_PutMissingBucket ==
    \A be \in Backends :
        (/\ last.op = "put" /\ ~last.auto_create
         /\ ~HasBucket(be, Pre(be), last.bucket_id)) =>
            /\ Res(be) = RetBool(FALSE)
            /\ St(be) = Pre(be)
            /\ ~HasBucket(be, St(be), last.bucket_id)
            /\ get_buckets(be, St(be)) = get_buckets(be, Pre(be))
            /\ \A b \in BucketIds, k \in RecordIds :
                   HasRecord(be, St(be), b, k) <=> HasRecord(be, Pre(be), b, k)

(* A put with overwrite=True and auto_create=False on a missing bucket of *)
(* a storage that holds another bucket with a record.                      *)
C3_Witness ==
    /\ last.op = "put" /\ ~last.auto_create /\ last.overwrite
    /\ \A be \in Backends :
        /\ ~HasBucket(be, Pre(be), last.bucket_id)
        /\ Res(be).tag = "False"
        /\ \E b \in BucketIds, k \in RecordIds : HasRecord(be, Pre(be), b, k)

(***************************************************************************)
(* C4 (as stated): put(b, k, v2, overwrite=True) on a present record       *)
(* returns true and afterwards get(b, k) returns exactly v2.               *)
(***************************************************************************)
C4_OverwriteReturnsExactlyV2 ==
    \A be \in Backends :
        (/\ last.op = "put" /\ last.overwrite
         /\ HasRecord(be, Pre(be), last.bucket_id, last.record_id)) =>
            /\ Res(be) = RetBool(TRUE)
            /\ get(be, St(be), last.bucket_id, last.record_id).out = RetRecord(last.record)

(***************************************************************************)
(* C4 (amended): put(b, k, v2, overwrite=True) on a present record returns *)
(* true and is a full replacement: afterwards get(b, k) returns v2 (on the *)
(* filesystem backend with every list read back as a tuple), and its       *)
(* fields are exactly the fields of v2, none retained from v1.             *)
(***************************************************************************)
C4_OverwriteReplaces ==
    \A be \in Backends :
        (/\ last.op = "put" /\ last.overwrite
         /\ HasRecord(be, Pre(be), last.bucket_id, last.record_id)) =>
            /\ Res(be) = RetBool(TRUE)
            /\ get(be, St(be), last.bucket_id, last.record_id).out
                   = RetRecord(Stored(be, last.record))
            /\ DOMAIN get(be, St(be), last.bucket_id, last.record_id).out.rec
                   = DOMAIN last.record

(* An overwrite of a record v1 by a record v2 that lacks a field of v1. *)
C4_Witness ==
    /\ last.op = "put" /\ last.overwrite
    /\ \A be \in Backends :
        /\ HasRecord(be, Pre(be), last.bucket_id, last.record_id)
        /\ Res(be).tag = "True"
        /\ (DOMAIN get(be, Pre(be), last.bucket_id, last.record_id).out.rec)
               \ (DOMAIN last.record) # {}

(***************************************************************************)
(* C5: for every backend, get(b, k) returns None and raises no error both  *)
(* when bucket b exists but holds no record k and when bucket b does not   *)
(* exist.                                                                  *)
(***************************************************************************)
C5_GetAbsentReturnsNone ==
    \A be \in Backends :
        (/\ last.op = "get"
         /\ ~HasRecord(be, Pre(be), last.bucket_id, last.record_id)) =>
            Res(be) = RetNone

(***************************************************************************)
(* C6: for every backend, delete(b, k) returns false, raises no error and  *)
(* changes no state when record k is not present in bucket b, including    *)
(* when bucket b does not exist.                                           *)
(***************************************************************************)
C6_DeleteAbsentReturnsFalse ==
    \A be \in Backends :
        (/\ last.op = "delete"
         /\ ~HasRecord(be, Pre(be), last.bucket_id, last.record_id)) =>
            /\ Res(be) = RetBool(FALSE)
            /\ St(be) = Pre(be)

C8_GetAllMissingVsEmpty ==
    \A be \in Backends, b \in BucketIds :
        /\ (get_all(be, St(be), b).out = RetNone) <=> ~HasBucket(be, St(be), b)
        /\ (/\ HasBucket(be, St(be), b)
            /\ \A k \in RecordIds : ~HasRecord(be, St(be), b, k)) =>
                get_all(be, St(be), b).out = RetMapping(EmptyDict)

(* A bucket emptied by the last call (clear, or delete of its only        *)
(* record) next to a bucket id that does not exist.                       *)
C8_Witness ==
    /\ last.op \in { "clear", "delete" }
    /\ \A be \in Backends :
        /\ HasBucket(be, St(be), last.bucket_id)
        /\ \E k \in RecordIds : HasRecord(be, Pre(be), last.bucket_id, k)
        /\ \A k \in RecordIds : ~HasRecord(be, St(be), last.bucket_id, k)
        /\ \E b \in BucketIds : ~HasBucket(be, St(be), b)

(***************************************************************************)
(* C9 (as stated): make_bucket(b) on a bucket id that already exists       *)
(* raises AlreadyExistsError and leaves the storage unchanged.             *)
(***************************************************************************)
C9_MakeExistingRaisesAlreadyExists ==
    \A be \in Backends :
        (/\ last.op = "make_bucket" /\ last.bucket_id # None
         /\ HasBucket(be, Pre(be), last.bucket_id)) =>
            /\ Res(be) = Raise("AlreadyExistsError")
            /\ St(be) = Pre(be)

(***************************************************************************)
(* C9 (amended): make_bucket(b) on a bucket id that already exists raises  *)
(* ValueError and leaves the storage unchanged: bucket b keeps all of its  *)
(* records and no other bucket is created.                                 *)
(***************************************************************************)
C9_MakeExistingRaises ==
    \A be \in Backends :
        (/\ last.op = "make_bucket" /\ last.bucket_id # None
         /\ HasBucket(be, Pre(be), last.bucket_id)) =>
            /\ Res(be) = Raise("ValueError")
            /\ St(be) = Pre(be)
            /\ get_all(be, St(be), last.bucket_id) = get_all(be, Pre(be), last.bucket_id)
            /\ get_buckets(be, St(be)) = get_buckets(be, Pre(be))

(* make_bucket of an existing bucket that holds a record. *)
C9_Witness ==
    /\ last.op = "make_bucket" /\ last.bucket_id # None
    /\ \A be \in Backends :
        /\ HasBucket(be, Pre(be), last.bucket_id)
        /\ \E k \in RecordIds : HasRecord(be, Pre(be), last.bucket_id, k)
        /\ IsRaise(Res(be))

C11_ClearRaisesNotFound ==
    \A be \in Backends :
        /\ (last.op = "clear" /\ HasBucket(be, Pre(be), last.bucket_id)) =>
                /\ Res(be) = RetNone
                /\ HasBucket(be, St(be), last.bucket_id)
                /\ get_all(be, St(be), last.bucket_id).out = RetMapping(EmptyDict)
        /\ (last.op = "clear" /\ ~HasBucket(be, Pre(be), last.bucket_id)) =>
                /\ Res(be) = Raise("NotFoundError")
                /\ St(be) = Pre(be)

(***************************************************************************)
(* C11 (amended): clear(b) on an existing bucket removes every record of b *)
(* while b persists (bucket_exists(b) is true, get_all(b) is the empty     *)
(* mapping, no record of b is present); clear(b) on a bucket that does not *)
(* exist raises ValueError and creates nothing.                            *)
(***************************************************************************)
C11_Clear ==
    \A be \in Backends :
        /\ (last.op = "clear" /\ HasBucket(be, Pre(be), last.bucket_id)) =>
                /\ Res(be) = RetNone
                /\ HasBucket(be, St(be), last.bucket_id)
                /\ get_all(be, St(be), last.bucket_id).out = RetMapping(EmptyDict)
                /\ \A k \in RecordIds : ~HasRecord(be, St(be), last.bucket_id, k)
        /\ (last.op = "clear" /\ ~HasBucket(be, Pre(be), last.bucket_id)) =>
                /\ Res(be) = Raise("ValueError")
                /\ St(be) = Pre(be)
                /\ ~HasBucket(be, St(be), last.bucket_id)

(* clear of a bucket that holds a record on both backends. *)
C11_Witness ==
    /\ last.op = "clear"
    /\ \A be \in Backends :
        /\ \E k \in RecordIds : HasRecord(be, Pre(be), last.bucket_id, k)
        /\ Res(be) = RetNone

(***************************************************************************)
(* C12: with a single caller and no deletion failure, after                *)
(* delete_all_buckets() has returned, get_buckets() is empty,              *)
(* bucket_exists(b) is false for every bucket id b and every record that   *)
(* was stored is absent.                                                   *)
(***************************************************************************)
C12_DeleteAllBuckets ==
    \A be \in Backends :
        (last.op = "delete_all_buckets" /\ ~IsRaise(Res(be))) =>
            /\ Res(be) = RetNone
            /\ get_buckets(be, St(be)) = RetList({})
            /\ \A b \in BucketIds :
                /\ bucket_exists(be, St(be), b) = RetBool(FALSE)
                /\ get_all(be, St(be), b).out = RetNone
                /\ \A k \in RecordIds : ~HasRecord(be, St(be), b, k)

(* delete_all_buckets on a storage that held two buckets and a record. *)
C12_Witness ==
    /\ last.op = "delete_all_buckets"
    /\ \A be \in Backends :
        /\ Res(be) = RetNone
        /\ Cardinality(get_buckets(be, Pre(be)).ids) >= 2
        /\ \E b \in BucketIds, k \in RecordIds : HasRecord(be, Pre(be), b, k)

(***************************************************************************)
(* C13: in every reachable state, get_buckets() enumerates exactly the     *)
(* existing buckets by their bucket ids: an id b is in get_buckets() iff   *)
(* bucket_exists(b), and nothing else is listed.                           *)
(***************************************************************************)
C13_GetBucketsListsIds ==
    \A be \in Backends :
        /\ get_buckets(be, St(be)).tag = "list"
        /\ \A b \in BucketIds :
               (b \in get_buckets(be, St(be)).ids) <=> HasBucket(be, St(be), b)
        /\ \A b \in get_buckets(be, St(be)).ids : HasBucket(be, St(be), b)

(***************************************************************************)
(* C14: for every backend, put or delete on (b, k) leaves get(b', k')      *)
(* unchanged for every pair (b', k') different from (b, k), and clear(b)   *)
(* or delete_bucket(b) leaves the existence and the records of every       *)
(* bucket b' different from b unchanged.                                   *)
(***************************************************************************)
C14_SingleRecordFrame ==
    \A be \in Backends :
        /\ (last.op \in { "put", "delete" }) =>
                \A b \in BucketIds, k \in RecordIds :
                    (<<b, k>> # <<last.bucket_id, last.record_id>>) =>
                        get(be, St(be), b, k).out = get(be, Pre(be), b, k).out
        /\ (last.op \in { "clear", "delete_bucket" }) =>
                \A b \in BucketIds :
                    (b # last.bucket_id) =>
                        /\ bucket_exists(be, St(be), b) = bucket_exists(be, Pre(be), b)
                        /\ get_all(be, St(be), b).out = get_all(be, Pre(be), b).out

(***************************************************************************)
(* Parity of the backends.  SpecParity applies the public operations with  *)
(* filesystem-safe ids only, to a fresh in-memory storage and a fresh      *)
(* filesystem storage whose root directory exists.                         *)
(***************************************************************************)

SafeBucketIds == { b \in BucketIds : _safe_filename(b) = b }

SafeRecordIds == { k \in RecordIds : _safe_filename(k) = k }

InitParity == Init /\ disk.root

NextParity ==
    /\ Next
    /\ last'.bucket_id \in SafeBucketIds \cup {None}
    /\ last'.record_id \in SafeRecordIds \cup {None}

SpecParity == InitParity /\ [][NextParity]_vars

(***************************************************************************)
(* C15: behavioural parity.  For every sequence of public operations       *)
(* applied with the same filesystem-safe ids to a fresh in-memory storage  *)
(* and a fresh filesystem storage, each operation yields the same outcome  *)
(* on both, and both hold the same buckets and records afterwards.         *)
(***************************************************************************)
C15_BackendParity ==
    /\ last.mem = last.fs
    /\ \A b \in SafeBucketIds :
        /\ HasBucket("mem", buckets, b) <=> HasBucket("fs", disk, b)
        /\ \A k \in SafeRecordIds :
               HasRecord("mem", buckets, b, k) <=> HasRecord("fs", disk, b, k)

(***************************************************************************)
(* C18 (as stated): in the filesystem backend every character of an id     *)
(* outside [A-Za-z0-9_] is replaced by "_", and ids with the same          *)
(* sanitized form collide: after a successful put(b, k1, v), for k2 # k1   *)
(* with the same sanitized form, record_exists(b, k2) is true, get(b, k2)  *)
(* returns v and put(b, k2, w, overwrite=True) replaces the record seen    *)
(* under k1; make_bucket(b2) raises when a bucket b1 with the same         *)
(* sanitized form exists.                                                  *)
(***************************************************************************)
C18_CollisionReturnsV ==
    /\ \A id \in BucketIds \cup RecordIds :
        \A i \in 1..Len(id) :
            _safe_filename(id)[i] = (IF id[i] \in SafeChars THEN id[i] ELSE "_")
    /\ (last.op = "put" /\ last.fs.tag = "True") =>
        \A k2 \in RecordIds :
            (k2 # last.record_id /\ _safe_filename(k2) = _safe_filename(last.record_id)) =>
                /\ record_exists("fs", disk, last.bucket_id, k2) = RetBool(TRUE)
                /\ get("fs", disk, last.bucket_id, k2).out = RetRecord(last.record)
                /\ \A w \in Records :
                    LET p == put("fs", disk, last.bucket_id, k2, w, TRUE, FALSE)
                    IN  /\ p.out = RetBool(TRUE)
                        /\ get("fs", p.st, last.bucket_id, last.record_id).out
                               = get("fs", p.st, last.bucket_id, k2).out
    /\ (last.op = "make_bucket" /\ last.fs.tag = "str") =>
        \A b2 \in BucketIds :
            (b2 # last.fs.id /\ _safe_filename(b2) = _safe_filename(last.fs.id)) =>
                IsRaise(make_bucket("fs", disk, b2, None).out)

(***************************************************************************)
(* C18 (amended): as stated, except that get(b, k2) returns what           *)
(* get(b, k1) returns: v with every list read back as a tuple.             *)
(***************************************************************************)
C18_SanitizedIdsCollide ==
    /\ \A id \in BucketIds \cup RecordIds :
        /\ Len(_safe_filename(id)) = Len(id)
        /\ \A i \in 1..Len(id) :
               _safe_filename(id)[i] = (IF id[i] \in SafeChars THEN id[i] ELSE "_")
    /\ (last.op = "put" /\ last.fs.tag = "True") =>
        \A k2 \in RecordIds :
            (k2 # last.record_id /\ _safe_filename(k2) = _safe_filename(last.record_id)) =>
                /\ record_exists("fs", disk, last.bucket_id, k2) = RetBool(TRUE)
                /\ get("fs", disk, last.bucket_id, k2).out
                       = get("fs", disk, last.bucket_id, last.record_id).out
                /\ get("fs", disk, last.bucket_id, k2).out = RetRecord(AsTuples(last.record))
                /\ \A w \in Records :
                    LET p == put("fs", disk, last.bucket_id, k2, w, TRUE, FALSE)
                    IN  /\ p.out = RetBool(TRUE)
                        /\ get("fs", p.st, last.bucket_id, last.record_id).out
                               = RetRecord(AsTuples(w))
    /\ (last.op = "make_bucket" /\ last.fs.tag = "str") =>
        \A b2 \in BucketIds :
            (b2 # last.fs.id /\ _safe_filename(b2) = _safe_filename(last.fs.id)) =>
                make_bucket("fs", disk, b2, None).out = Raise("ValueError")

(* A put on the filesystem of a record with a list, under an id that has *)
(* a different id of the same sanitized form.                            *)
C18_Witness ==
    /\ last.op = "put" /\ last.fs.tag = "True"
    /\ last.record = RecAda
    /\ \E k2 \in RecordIds :
        /\ k2 # last.record_id
        /\ _safe_filename(k2) = _safe_filename(last.record_id)

(***************************************************************************)
(* Restart.  SpecRestart adds the construction of new storage objects: a   *)
(* new FileRecordStorage on the same root directory keeps nothing but the  *)
(* path, a new InMemoryRecordStorage starts with an empty _buckets.  last  *)
(* and prev keep describing the last call made before the restart.         *)
(***************************************************************************)

NewInstance ==
    /\ nops < MaxOps
    /\ buckets' = EmptyDict
    /\ disk' = disk
    /\ nops' = nops + 1
    /\ UNCHANGED <<last, prev, io, callers, hashing, models>>

NextRestart == Next \/ NewInstance

SpecRestart == Init /\ [][NextRestart]_vars

(***************************************************************************)
(* C17: filesystem round trip and durability.  A record v written by a     *)
(* successful put(b, k, v) through one FileRecordStorage is returned by    *)
(* get(b, k) through the same instance or a new instance on the same root  *)
(* directory, as a value structurally equal to v (sequences may come back  *)
(* as tuples); the bucket and the record exist for the new instance too.   *)
(***************************************************************************)
C17_RoundTrip ==
    (last.op = "put" /\ last.fs.tag = "True") =>
        LET g == get("fs", disk, last.bucket_id, last.record_id).out
        IN  /\ g.tag = "record"
            /\ AsTuples(g.rec) = AsTuples(last.record)
            /\ DOMAIN g.rec = DOMAIN last.record
            /\ bucket_exists("fs", disk, last.bucket_id) = RetBool(TRUE)
            /\ record_exists("fs", disk, last.bucket_id, last.record_id) = RetBool(TRUE)

(* A record with a list and a bytes object was put on both backends, and  *)
(* new instances were made since: the in-memory storage has lost it.      *)
C17_Witness ==
    /\ last.op = "put" /\ last.fs.tag = "True" /\ last.mem.tag = "True"
    /\ last.record = RecAda
    /\ buckets = EmptyDict

(***************************************************************************)
(* An unreliable environment.  SpecIO applies the public operations to     *)
(* the two storages while the I/O of each call of the filesystem backend   *)
(* either works ("ok") or fails, with an OSError or with another           *)
(* exception; prev.io is the disposition under which the last call ran.    *)
(* The ids are the filesystem-safe ones, as in SpecParity.                 *)
(***************************************************************************)

InitIO ==
    /\ InitStorage
    /\ disk.root
    /\ io \in { "ok" } \cup Failures
    /\ callers = NoCallers
    /\ hashing = NoHashing
    /\ ModelsIdle
    /\ prev = [buckets |-> buckets, disk |-> disk, io |-> io]

SpecIO == InitIO /\ [][NextParity]_vars

(* The last call on the filesystem backend ran into failing I/O in one of  *)
(* the primitives that catch nothing: mkdir, iterdir, open.                *)
FailedInPrimitive ==
    LET b == last.bucket_id
        k == last.record_id
        P == prev.disk
    IN  /\ prev.io \in Failures
        /\ \/ last.op = "make_bucket" /\ b # None /\ ~HasBucket("fs", P, b)
           \/ last.op \in { "clear", "get_all" } /\ HasBucket("fs", P, b)
           \/ last.op = "get" /\ HasRecord("fs", P, b, k)
           \/ last.op = "get_buckets"
           \/ /\ last.op = "put"
              /\ \/ HasBucket("fs", P, b)
                    /\ (~HasRecord("fs", P, b, k) \/ last.overwrite)
                 \/ ~HasBucket("fs", P, b) /\ last.auto_create

(* The last call was the deletion of an existing bucket, or of an existing *)
(* record, that failed.                                                    *)
FailedBucketDeletion ==
    /\ prev.io \in Failures
    /\ last.op = "delete_bucket"
    /\ HasBucket("fs", prev.disk, last.bucket_id)

FailedRecordDeletion ==
    /\ prev.io \in Failures
    /\ last.op = "delete"
    /\ HasRecord("fs", prev.disk, last.bucket_id, last.record_id)

(***************************************************************************)
(* C16 (as stated): delete_bucket(b) never raises when the deletion of an  *)
(* existing bucket fails for an environment reason (an I/O error or any    *)
(* exception of the primitive): it returns false; and delete_bucket is the *)
(* only operation that converts such a failure: every other operation      *)
(* whose I/O fails raises.                                                 *)
(***************************************************************************)
C16_OnlyDeleteBucketConverts ==
    /\ FailedBucketDeletion => last.fs = RetBool(FALSE)
    /\ FailedRecordDeletion => IsRaise(last.fs)
    /\ FailedInPrimitive => IsRaise(last.fs)

(***************************************************************************)
(* C16 (amended): delete_bucket(b) never raises when the deletion of an    *)
(* existing bucket fails for an environment reason (an I/O error or any    *)
(* exception of the primitive): it returns false.  The filesystem          *)
(* backend's delete(b, k) of an existing record also returns false when    *)
(* unlink fails with an OSError, and raises on any other exception;        *)
(* make_bucket, clear, get, get_all, put and get_buckets let the failure   *)
(* of their I/O propagate.                                                 *)
(***************************************************************************)
C16_DeletionFailure ==
    /\ FailedBucketDeletion => last.fs = RetBool(FALSE)
    /\ FailedRecordDeletion =>
           last.fs = (IF prev.io = "OSError" THEN RetBool(FALSE)
                                            ELSE Raise(prev.io))
    /\ FailedInPrimitive => last.fs = Raise(prev.io)

C16_Witness ==
    /\ FailedBucketDeletion
    /\ prev.io = "RuntimeError"
    /\ last.fs = RetBool(FALSE)
    /\ last.mem = RetBool(TRUE)
    /\ prev.disk.dirs[_safe_filename(last.bucket_id)] # EmptyDict

(***************************************************************************)
(* Concurrent writers.  SpecRace runs put on one FileRecordStorage from    *)
(* two threads.  A call is three steps, and the threads interleave between *)
(* them: the bucket check of BaseRecordStorage.put, the existence check    *)
(* of FileRecordStorage._record_put, and its open-and-write (taken as one  *)
(* step: the file ends up holding the whole record of the thread that      *)
(* wrote last).  Nothing in the code orders the steps of one thread        *)
(* against those of the other.                                             *)
(***************************************************************************)

Callers == { "t1", "t2" }

(* A thread about to call put(bucket_id, record_id, record, overwrite). *)
Caller(bucket_id, record_id, record, overwrite) ==
    [pc |-> "put", bucket_id |-> bucket_id, record_id |-> record_id,
     record |-> record, overwrite |-> overwrite, seen |-> FALSE,
     ret |-> RetNone]

(* The root holds nothing, or the bucket and nothing in it, or the bucket  *)
(* and a record. *)
InitRace ==
    /\ buckets = EmptyDict
    /\ last = Call("init", None, None, NoRecord, FALSE, FALSE, RetNone, RetNone)
    /\ nops = 0
    /\ io = "reliable"
    /\ hashing = NoHashing
    /\ ModelsIdle
    /\ \E b \in BucketIds :
        /\ disk \in { [root |-> TRUE, dirs |-> EmptyDict],
                      File_bucket_new([root |-> TRUE, dirs |-> EmptyDict], b) }
                     \cup { File_record_put(
                                File_bucket_new([root |-> TRUE, dirs |-> EmptyDict], b),
                                b, k, RecBob, FALSE).st : k \in RecordIds }
        /\ callers \in [Callers -> { Caller(b, k, v, o) :
                            k \in RecordIds, v \in Records, o \in BOOLEAN }]
    /\ prev = [buckets |-> buckets, disk |-> disk, io |-> io]

(* base.py 135-141: the bucket check of put, with auto_create left False. *)
PutEnter(t) ==
    LET c == callers[t]
    IN  /\ c.pc = "put"
        /\ callers' = [callers EXCEPT ![t] =
               IF bucket_exists("fs", disk, c.bucket_id).tag # "True"
               THEN [c EXCEPT !.pc = "done", !.ret = RetBool(FALSE)]
               ELSE [c EXCEPT !.pc = "_record_put"]]
        /\ UNCHANGED <<buckets, disk, last, prev, nops, io, hashing, models>>

(* fs.py 174-177: record_path.exists() and the overwrite flag. *)
PutExists(t) ==
    LET c           == callers[t]
        record_path == _get_record_path(c.bucket_id, c.record_id)
        exists      == /\ record_path.dir \in DOMAIN disk.dirs
                       /\ record_path.file \in DOMAIN disk.dirs[record_path.dir]
    IN  /\ c.pc = "_record_put"
        /\ callers' = [callers EXCEPT ![t] =
               IF exists /\ ~c.overwrite
               THEN [c EXCEPT !.pc = "done", !.seen = exists, !.ret = RetBool(FALSE)]
               ELSE [c EXCEPT !.pc = "open", !.seen = exists]]
        /\ UNCHANGED <<buckets, disk, last, prev, nops, io, hashing, models>>

(* Mutant: the file is opened for exclusive creation unless overwrite is   *)
(* set, so the write of a record that appeared meanwhile is refused.       *)
WriteOutcome_Exclusive(F, c) ==
    LET record_path == _get_record_path(c.bucket_id, c.record_id)
    IN  IF record_path.file \in DOMAIN F.dirs[record_path.dir] /\ ~c.overwrite
        THEN Eff(F, RetBool(FALSE))
        ELSE File_record_put(F, c.bucket_id, c.record_id, c.record, TRUE)

(* fs.py 179-182: open('wb+') truncates or creates the file whatever it    *)
(* holds by now, the packed record is written, True is returned. *)
WriteOutcome(F, c) ==
    File_record_put(F, c.bucket_id, c.record_id, c.record, TRUE)

PutWrite(t) ==
    LET c == callers[t]
        w == WriteOutcome(disk, c)
    IN  /\ c.pc = "open"
        /\ disk' = w.st
        /\ callers' = [callers EXCEPT ![t] = [c EXCEPT !.pc = "done", !.ret = w.out]]
        /\ UNCHANGED <<buckets, last, prev, nops, io, hashing, models>>

NextRace == \E t \in Callers : PutEnter(t) \/ PutExists(t) \/ PutWrite(t)

SpecRace == InitRace /\ [][NextRace]_vars

(* Both threads were given the same bucket and record ids whose file is    *)
(* the same, without overwrite. *)
SameRecord ==
    /\ callers # NoCallers
    /\ \A t \in Callers : ~callers[t].overwrite
    /\ \A t, u \in Callers :
        _get_record_path(callers[t].bucket_id, callers[t].record_id)
            = _get_record_path(callers[u].bucket_id, callers[u].record_id)

(***************************************************************************)
(* C19: the filesystem backend takes no lock between its existence check   *)
(* and its write.  The outcome of put is decided by what its own checks    *)
(* saw: a call whose bucket exists and whose existence check found the     *)
(* record absent returns true whatever the other thread has written since, *)
(* and when two put(b, k, v, overwrite=False) on the same absent record    *)
(* have both returned true the file holds one of the two records only.     *)
(* The witness is the interleaving in which both calls return true and     *)
(* one of two different records is lost.                                   *)
(***************************************************************************)
C19_NoLockRace ==
    callers # NoCallers =>
        /\ \A t \in Callers :
               callers[t].pc = "done" /\ HasBucket("fs", disk, callers[t].bucket_id) =>
                   (callers[t].ret = RetBool(TRUE)
                       <=> (~callers[t].seen \/ callers[t].overwrite))
        /\ (SameRecord /\ \A t \in Callers : callers[t].ret = RetBool(TRUE)) =>
               \E t \in Callers :
                   LET c == callers[t]
                   IN  /\ get("fs", disk, c.bucket_id, c.record_id).out
                              = RetRecord(AsTuples(c.record))
                       /\ \A u \in Callers :
                              get("fs", disk, c.bucket_id, callers[u].record_id).out
                                  = RetRecord(AsTuples(c.record))

C19_Witness ==
    /\ SameRecord
    /\ \A t \in Callers : callers[t].pc = "done" /\ callers[t].ret = RetBool(TRUE)
    /\ AsTuples(callers["t1"].record) # AsTuples(callers["t2"].record)
    /\ callers["t1"].record_id = callers["t2"].record_id
    /\ get("fs", disk, callers["t1"].bucket_id, callers["t1"].record_id).out
           = RetRecord(AsTuples(callers["t2"].record))
    /\ get("fs", disk, callers["t1"].bucket_id, callers["t1"].record_id).out
           # RetRecord(AsTuples(callers["t1"].record))

(***************************************************************************)
(* The content hash (gator.core.data.utils.hash).  A Python value is a     *)
(* record [t, n, items]: t is its type, n the rank of a scalar among the   *)
(* scalars of its type, items the elements of a container in the order     *)
(* the container yields them (the insertion order of a dict, whose items   *)
(* are (key, value) pairs, the iteration order of a set).  Keys are        *)
(* strings, elements of sets are ints; the elements of lists and tuples    *)
(* and the values of dicts are scalars or containers of scalars.           *)
(***************************************************************************)

Scalar(t, n) == [t |-> t, n |-> n, items |-> <<>>]

Container(t, items) == [t |-> t, n |-> 0, items |-> items]

Ints == { Scalar("int", n) : n \in { 1, 2 } }

Strs == { Scalar("str", n) : n \in { 1, 2 } }

(* The sequences of no, one or two elements of S. *)
SeqsOf(S) == { <<>> } \cup { <<x>> : x \in S } \cup { <<x, y>> : x, y \in S }

Distinct(s) == \A i, j \in 1..Len(s) : i # j => s[i] # s[j]

(* The lists, tuples, sets and dicts whose elements or values are in S. *)
ContainersOf(S) ==
    { Container(t, s) : t \in { "list", "tuple" }, s \in SeqsOf(S) }
        \cup { Container("set", s) : s \in { q \in SeqsOf(Ints) : Distinct(q) } }
        \cup { Container("dict", [i \in 1..Len(ks) |-> Container("item", <<ks[i], vs[i]>>)]) :
                    <<ks, vs>> \in { q \in SeqsOf(Strs) \X SeqsOf(S) :
                                        Distinct(q[1]) /\ Len(q[1]) = Len(q[2]) } }

FlatValues == Ints \cup ContainersOf(Ints)

Values == FlatValues \cup ContainersOf(FlatValues)

(* Python's < on the normal forms that get sorted: ints by value, strings  *)
(* in lexicographic order, (key, value) tuples by their key, the keys of   *)
(* a dict being distinct.                                                  *)
Before(x, y) ==
    IF x.t = "tuple" THEN x.items[1].n < y.items[1].n ELSE x.n < y.n

(* Mutant: the items are left in the order the container yields them. *)
sorted_AsGiven(s) == s

sorted(s) == SortSeq(s, Before)

(* Normalisation: sequences become tuples in their order, mappings tuples  *)
(* of (key, normalized value) pairs sorted by key, sets tuples of their    *)
(* normalized elements sorted by value, scalars pass through.              *)
RECURSIVE make_hashable(_)
make_hashable(o) ==
    LET each == [i \in 1..Len(o.items) |-> make_hashable(o.items[i])]
    IN  IF o.t \in { "list", "tuple", "item" } THEN Container("tuple", each)
        ELSE IF o.t \in { "dict", "set" } THEN Container("tuple", sorted(each))
        ELSE o

(* The textual encoding of a normal form, as Python's repr writes it. *)
RECURSIVE repr(_), ReprItems(_)
ReprItems(s) ==
    IF s = <<>> THEN <<>>
    ELSE repr(Head(s)) \o (IF Len(s) > 1 THEN <<", ">> ELSE <<>>) \o ReprItems(Tail(s))

repr(o) ==
    IF o.t = "int" THEN <<ToString(o.n)>>
    ELSE IF o.t = "str" THEN <<"'s" \o ToString(o.n) \o "'">>
    ELSE <<"(">> \o ReprItems(o.items)
               \o (IF Len(o.items) = 1 THEN <<",">> ELSE <<>>) \o <<")">>

(* SHA-256 of a text, base64 encoded: collision resistant, so the digest   *)
(* stands for the text it was computed from and for nothing else.          *)
b64_sha256(text) == [alg |-> "sha256", of |-> text]

make_hash_sha256(o) == b64_sha256(repr(make_hashable(o)))

NoDigest == [alg |-> "none", of |-> <<>>]

(* The values equal to o up to the insertion order of the dicts and the    *)
(* iteration order of the sets in it, at any depth.                        *)
RECURSIVE Choices(_)
(* The sequences that take their i-th element from the i-th set of R. *)
Choices(R) ==
    IF R = <<>> THEN { <<>> }
    ELSE { <<x>> \o s : x \in Head(R), s \in Choices(Tail(R)) }

RECURSIVE Rearranged(_)
Rearranged(o) ==
    LET n == Len(o.items)
        orders == IF o.t \in { "dict", "set" } THEN Permutations(1..n)
                  ELSE { [i \in 1..n |-> i] }
    IN  IF n = 0 THEN { o }
        ELSE { Container(o.t, [i \in 1..n |-> s[p[i]]]) :
                   p \in orders,
                   s \in Choices([i \in 1..n |-> Rearranged(o.items[i])]) }

(* The sequences with the elements of the sequence o in another order. *)
Reordered(o) ==
    IF o.t \in { "list", "tuple" }
    THEN { Container(o.t, [i \in 1..Len(o.items) |-> o.items[p[i]]]) :
               p \in Permutations(1..Len(o.items)) } \ { o }
    ELSE {}

(* Two values are chosen: a and a rearrangement of it, or a sequence and   *)
(* a reordering of it; nothing is hashed yet. *)
InitHash ==
    /\ InitStorage
    /\ disk.root
    /\ io = "reliable"
    /\ callers = NoCallers
    /\ ModelsIdle
    /\ prev = [buckets |-> buckets, disk |-> disk, io |-> io]
    /\ \E a \in Values :
        \/ \E b \in Rearranged(a) :
              hashing = [a |-> a, b |-> b, rel |-> "rearranged",
                         ha |-> NoDigest, hb |-> NoDigest, again |-> NoDigest]
        \/ \E b \in Reordered(a) :
              hashing = [a |-> a, b |-> b, rel |-> "reordered",
                         ha |-> NoDigest, hb |-> NoDigest, again |-> NoDigest]

HashA ==
    /\ hashing # NoHashing /\ hashing.ha = NoDigest
    /\ hashing' = [hashing EXCEPT !.ha = make_hash_sha256(hashing.a)]
    /\ UNCHANGED <<buckets, disk, last, prev, nops, io, callers, models>>

HashB ==
    /\ hashing # NoHashing /\ hashing.hb = NoDigest
    /\ hashing' = [hashing EXCEPT !.hb = make_hash_sha256(hashing.b)]
    /\ UNCHANGED <<buckets, disk, last, prev, nops, io, callers, models>>

HashAgain ==
    /\ hashing # NoHashing /\ hashing.ha # NoDigest /\ hashing.again = NoDigest
    /\ hashing' = [hashing EXCEPT !.again = make_hash_sha256(hashing.a)]
    /\ UNCHANGED <<buckets, disk, last, prev, nops, io, callers, models>>

NextHash == HashA \/ HashB \/ HashAgain

SpecHash == InitHash /\ [][NextHash]_vars

BothHashed == hashing # NoHashing /\ hashing.ha # NoDigest /\ hashing.hb # NoDigest

(***************************************************************************)
(* C20 (as stated): the content hash is deterministic, insensitive to the  *)
(* insertion order of mappings and the element order of sets at any depth, *)
(* and sensitive to the order of sequences: a value hashed again has the   *)
(* same digest, two values equal up to mapping and set order have the same *)
(* digest, and two sequences with the same elements in a different order   *)
(* have different digests.                                                 *)
(***************************************************************************)
C20_ReorderedSequencesDiffer ==
    /\ (BothHashed /\ hashing.rel = "rearranged") => hashing.ha = hashing.hb
    /\ (hashing # NoHashing /\ hashing.again # NoDigest) => hashing.again = hashing.ha
    /\ (BothHashed /\ hashing.rel = "reordered") => hashing.ha # hashing.hb

(* The elements of the two sequences differ as normal forms at some index. *)
NormalFormsDiffer ==
    \E i \in 1..Len(hashing.a.items) :
        make_hashable(hashing.a.items[i]) # make_hashable(hashing.b.items[i])

(***************************************************************************)
(* C20 (amended): a value hashed again has the same digest; two values     *)
(* equal up to mapping and set order, at any depth, have the same digest;  *)
(* two sequences with the same elements in a different order have          *)
(* different digests when the elements that changed place have different   *)
(* normal forms, and the same digest when they have the same normal form:  *)
(* a list and a tuple, or a sequence and a set, with the same content      *)
(* normalise to the same tuple.                                            *)
(***************************************************************************)
C20_OrderSensitivity ==
    /\ (BothHashed /\ hashing.rel = "rearranged") => hashing.ha = hashing.hb
    /\ (hashing # NoHashing /\ hashing.again # NoDigest) => hashing.again = hashing.ha
    /\ (BothHashed /\ hashing.rel = "reordered") =>
           (hashing.ha # hashing.hb <=> NormalFormsDiffer)

C20_Witness ==
    /\ BothHashed
    /\ hashing.rel = "rearranged"
    /\ hashing.a # hashing.b
    /\ hashing.a.t = "dict"
    /\ \E i \in 1..Len(hashing.a.items) : hashing.a.items[i].items[2].t = "set"
    /\ hashing.ha = hashing.hb
    /\ hashing.again = hashing.ha

(***************************************************************************)
(* Record.sync (models/common.py).  objects maps the id of every stored    *)
(* Record document to its doc and hash; the hash field is declared         *)
(* unique, so a save that would give two documents one hash is refused by  *)
(* the database.  A Record to sync is an id, a doc and the hash its        *)
(* caller computed for the doc.                                            *)
(***************************************************************************)

SyncIds == { "r1", "r2" }

Docs == { "d1", "d2" }

Hashes == { "h1", "h2" }

RecordDocs == [id : SyncIds, doc : Docs, hash : Hashes]

(* The storages are idle while the models are at work. *)
StorageIdle ==
    /\ InitStorage
    /\ disk.root
    /\ io = "reliable"
    /\ callers = NoCallers
    /\ hashing = NoHashing
    /\ prev = [buckets |-> buckets, disk |-> disk, io |-> io]

StorageUnchanged == UNCHANGED <<buckets, disk, last, prev, nops, io, callers, hashing>>

(* Document.save: the document is written under its id unless another      *)
(* stored document has its hash (hash is unique=True). *)
save(coll, id, doc, hash) ==
    IF \E other \in DOMAIN coll : other # id /\ coll[other].hash = hash
    THEN [coll |-> coll, result |-> "NotUniqueError"]
    ELSE [coll |-> DictSet(coll, id, [doc |-> doc, hash |-> hash]), result |-> "saved"]

(* datetime.datetime.now() where the name datetime is bound to the class   *)
(* datetime.datetime (line 5 rebinds the module imported at line 2): the   *)
(* class has no attribute datetime. *)
datetime_datetime_now == "AttributeError"

(* Record.sync(self, force): the collection afterwards and what the call   *)
(* returned or raised. *)
sync(coll, self, force) ==
    IF self.id \notin DOMAIN coll
    THEN LET s == save(coll, self.id, self.doc, self.hash)
         IN  [coll |-> s.coll, result |-> IF s.result = "saved" THEN "created" ELSE s.result]
    ELSE IF force \/ coll[self.id].hash # self.hash
    THEN [coll |-> coll, result |-> datetime_datetime_now]
    ELSE [coll |-> coll, result |-> "skipped"]

InitSync ==
    /\ StorageIdle
    /\ ModelsIdle

Sync ==
    \E self \in RecordDocs, force \in BOOLEAN :
        LET r == sync(objects, self, force)
        IN  /\ objects' = r.coll
            /\ synced' = [self |-> self, force |-> force, result |-> r.result,
                          before |-> objects]
            /\ UNCHANGED <<_parent, _sub_institutions, edited, compared>>
            /\ StorageUnchanged

SpecSync == InitSync /\ [][Sync]_vars

(***************************************************************************)
(* C21: Record.sync decides create, update or skip from the stored hash:   *)
(* it returns 'created' and stores the record when no stored record has    *)
(* its id; it returns 'updated' and replaces the stored doc and hash when  *)
(* force is true or the stored hash differs; otherwise it returns          *)
(* 'skipped' and changes nothing.                                          *)
(***************************************************************************)
C21_SyncDecides ==
    synced # NoCall =>
        LET self   == synced.self
            stored == [doc |-> self.doc, hash |-> self.hash]
        IN  IF self.id \notin DOMAIN synced.before
            THEN synced.result = "created"
                    /\ objects = DictSet(synced.before, self.id, stored)
            ELSE IF synced.force \/ synced.before[self.id].hash # self.hash
            THEN synced.result = "updated"
                    /\ objects = DictSet(synced.before, self.id, stored)
            ELSE synced.result = "skipped" /\ objects = synced.before

(***************************************************************************)
(* The institution tree (models/institution.py).  A tree T is the pair of  *)
(* the _parent and the _sub_institutions of every institution.  An         *)
(* operation yields the tree afterwards and "ok" or the exception raised;  *)
(* an operation that raises keeps what it had changed until then.          *)
(***************************************************************************)

Tree == [parent |-> _parent, subs |-> _sub_institutions]

Occurs(item, list) == \E i \in 1..Len(list) : list[i] = item

Count(item, list) == Cardinality({ i \in 1..Len(list) : list[i] = item })

(* list.remove(item): the first occurrence is taken out. *)
ListRemove(list, item) ==
    LET i == CHOOSE j \in 1..Len(list) :
                 list[j] = item /\ \A k \in 1..(j - 1) : list[k] # item
    IN  [k \in 1..(Len(list) - 1) |-> IF k < i THEN list[k] ELSE list[k + 1]]

(* Institution.parent setter, lines 139-148. *)
set_parent(T, self, new_parent) ==
    LET old_parent == T.parent[self]
    IN  IF old_parent # "None" /\ ~Occurs(self, T.subs[old_parent])
        THEN [tree |-> T, result |-> "ValueError"]
        ELSE LET T0 == IF old_parent # "None"
                       THEN [T EXCEPT !.subs[old_parent] = ListRemove(@, self)]
                       ELSE T
                 T1 == [T0 EXCEPT !.parent[self] = new_parent]
             IN  IF new_parent # "None"
                 THEN [tree |-> [T1 EXCEPT !.subs[new_parent] = Append(@, self)],
                       result |-> "ok"]
                 ELSE [tree |-> T1, result |-> "ok"]

(* p.sub_institutions.insert(i, item) and append(item): the property makes *)
(* a hooked list holding a copy of p._sub_institutions, the item goes into *)
(* the copy, and _after_add sets item.parent = p. *)
list_append(T, p, item) == set_parent(T, item, p)

(* p.sub_institutions.extend(items): an append for each item in turn. *)
RECURSIVE list_extend(_, _, _)
list_extend(T, p, items) ==
    IF items = <<>> THEN [tree |-> T, result |-> "ok"]
    ELSE LET r == list_append(T, p, Head(items))
         IN  IF r.result # "ok" THEN r ELSE list_extend(r.tree, p, Tail(items))

(* p.sub_institutions.remove(item): the item is looked up in the copy,     *)
(* deleted from it, and _after_del sets item.parent = None. *)
list_remove(T, p, item) ==
    IF ~Occurs(item, T.subs[p])
    THEN [tree |-> T, result |-> "ValueError"]
    ELSE set_parent(T, item, "None")

(* p.sub_institutions.pop(): the same for the last item of the copy. *)
list_pop(T, p) ==
    IF T.subs[p] = <<>>
    THEN [tree |-> T, result |-> "IndexError"]
    ELSE set_parent(T, T.subs[p][Len(T.subs[p])], "None")

(* Institution.sub_institutions setter, lines 177-179: the raw list is     *)
(* cleared, then every new item is appended through the property. *)
set_sub_institutions(T, self, new_sub_institutions) ==
    list_extend([T EXCEPT !.subs[self] = <<>>], self, new_sub_institutions)

(* The lists given to extend and to the setter. *)
InstitutionLists ==
    { <<>> } \cup { <<x>> : x \in Institutions }
             \cup { <<x, y>> : x, y \in Institutions }

InitTree ==
    /\ StorageIdle
    /\ ModelsIdle

Edit(op, p, item, items, r) ==
    /\ _parent' = r.tree.parent
    /\ _sub_institutions' = r.tree.subs
    /\ edited' = [op |-> op, p |-> p, item |-> item, items |-> items,
                  result |-> r.result, before |-> Tree]
    /\ UNCHANGED <<objects, synced, compared>>
    /\ StorageUnchanged

SetParent ==
    \E c \in Institutions, p \in Institutions \cup { "None" } :
        Edit("parent", p, c, <<>>, set_parent(Tree, c, p))

ListAppend ==
    \E p, c \in Institutions : Edit("append", p, c, <<>>, list_append(Tree, p, c))

ListInsert ==
    \E p, c \in Institutions : Edit("insert", p, c, <<>>, list_append(Tree, p, c))

ListExtend ==
    \E p \in Institutions, l \in InstitutionLists :
        Edit("extend", p, "None", l, list_extend(Tree, p, l))

ListRemoveItem ==
    \E p, c \in Institutions : Edit("remove", p, c, <<>>, list_remove(Tree, p, c))

ListPop ==
    \E p \in Institutions :
        Edit("pop", p,
             IF _sub_institutions[p] = <<>> THEN "None"
             ELSE _sub_institutions[p][Len(_sub_institutions[p])],
             <<>>, list_pop(Tree, p))

SetSubInstitutions ==
    \E p \in Institutions, l \in InstitutionLists :
        Edit("sub_institutions", p, "None", l, set_sub_institutions(Tree, p, l))

NextTree ==
    \/ SetParent \/ ListAppend \/ ListInsert \/ ListExtend
    \/ ListRemoveItem \/ ListPop \/ SetSubInstitutions

SpecTree == InitTree /\ [][NextTree]_vars

(***************************************************************************)
(* C22: adding a child c to a parent p through p.sub_institutions (append, *)
(* insert, extend) puts c in p.sub_institutions and sets c.parent to p;    *)
(* removing c (remove, pop) takes c out of p.sub_institutions and sets     *)
(* c.parent to None, while every remaining child stays in the list with    *)
(* parent p; and setting c.parent = p puts c in p.sub_institutions and     *)
(* takes c out of its previous parent's sub_institutions.                  *)
(***************************************************************************)
C22_ListKeepsParents ==
    edited # NoCall =>
        LET p    == edited.p
            c    == edited.item
            was  == edited.before
            Child(x) == Occurs(x, _sub_institutions[p]) /\ _parent[x] = p
        IN  /\ edited.op \in { "append", "insert" } => Child(c)
            /\ edited.op = "extend" =>
                   \A i \in 1..Len(edited.items) : Child(edited.items[i])
            /\ (edited.op \in { "remove", "pop" } /\ Occurs(c, was.subs[p])) =>
                   /\ ~Occurs(c, _sub_institutions[p])
                   /\ _parent[c] = "None"
                   /\ \A x \in Institutions :
                          (x # c /\ Occurs(x, was.subs[p])) => Child(x)
            /\ (edited.op = "parent" /\ p # "None") =>
                   /\ Child(c)
                   /\ (was.parent[c] \notin { "None", p }) =>
                          ~Occurs(c, _sub_institutions[was.parent[c]])

(***************************************************************************)
(* C29: the institution tree stays bidirectionally consistent after any    *)
(* sequence of parent assignments, list operations and sub_institutions    *)
(* assignments: c.parent is p iff c occurs in p.sub_institutions, and      *)
(* then exactly once; after p.sub_institutions = new_list every former     *)
(* child that is not in new_list has parent None.                          *)
(***************************************************************************)
C29_TreeConsistent ==
    /\ \A c, p \in Institutions :
           /\ _parent[c] = p <=> Occurs(c, _sub_institutions[p])
           /\ Count(c, _sub_institutions[p]) <= 1
    /\ (edited # NoCall /\ edited.op = "sub_institutions") =>
           \A c \in Institutions :
               (Occurs(c, edited.before.subs[edited.p]) /\ ~Occurs(c, edited.items))
                   => _parent[c] = "None"

(***************************************************************************)
(* Session (models/timetable.py): a year, a season and a subsession, and   *)
(* the comparison operators the class defines.                             *)
(***************************************************************************)

Sessions == [year : { 2022, 2023 }, season : { "regular", "summer" },
             subsession : { "first", "second", "whole" }]

_SEASON_ORDER == [regular |-> 0, summer |-> 1]

_SUBSESSION_ORDER == [first |-> 0, second |-> 1, whole |-> 2]

__eq__(self, other) ==
    /\ self.year = other.year
    /\ self.season = other.season
    /\ self.subsession = other.subsession

(* Mutant: the season is compared whatever the years. *)
__lt___AnyYear(self, other) ==
    \/ self.year < other.year
    \/ _SEASON_ORDER[self.season] < _SEASON_ORDER[other.season]
    \/ /\ self.year = other.year
       /\ _SEASON_ORDER[self.season] = _SEASON_ORDER[other.season]
       /\ _SUBSESSION_ORDER[self.subsession] < _SUBSESSION_ORDER[other.subsession]

__lt__(self, other) ==
    \/ self.year < other.year
    \/ /\ self.year = other.year
       /\ _SEASON_ORDER[self.season] < _SEASON_ORDER[other.season]
    \/ /\ self.year = other.year
       /\ _SEASON_ORDER[self.season] = _SEASON_ORDER[other.season]
       /\ _SUBSESSION_ORDER[self.subsession] < _SUBSESSION_ORDER[other.subsession]

__le__(self, other) == __lt__(self, other) \/ __eq__(self, other)

__gt__(self, other) == ~__lt__(self, other)

__ge__(self, other) == __gt__(self, other) \/ __eq__(self, other)

(* sorted(list) as CPython sorts a short list, with __lt__ alone: the      *)
(* leading run is found (and reversed when strictly descending), then each *)
(* later element is put in place by binary insertion. *)
RECURSIVE RunEnd(_, _, _)
RunEnd(a, i, descending) ==
    IF i > Len(a) THEN Len(a)
    ELSE IF __lt__(a[i], a[i - 1]) = descending THEN RunEnd(a, i + 1, descending)
    ELSE i - 1

Reverse(a) == [i \in 1..Len(a) |-> a[Len(a) + 1 - i]]

RECURSIVE Bisect(_, _, _, _)
(* The place of pivot among a[l + 1 .. r], which is sorted. *)
Bisect(a, pivot, l, r) ==
    IF l >= r THEN l
    ELSE LET p == l + ((r - l) \div 2)
         IN  IF __lt__(pivot, a[p + 1]) THEN Bisect(a, pivot, l, p)
             ELSE Bisect(a, pivot, p + 1, r)

RECURSIVE BinarySort(_, _)
(* a[1 .. start - 1] is sorted; the elements from start on are inserted. *)
BinarySort(a, start) ==
    IF start > Len(a) THEN a
    ELSE LET pivot == a[start]
             l     == Bisect(a, pivot, 0, start - 1)
             b     == [i \in 1..Len(a) |->
                          IF i <= l THEN a[i]
                          ELSE IF i = l + 1 THEN pivot
                          ELSE IF i <= start THEN a[i - 1]
                          ELSE a[i]]
         IN  BinarySort(b, start + 1)

sorted_sessions(a) ==
    IF Len(a) < 2 THEN a
    ELSE LET descending == __lt__(a[2], a[1])
             n          == RunEnd(a, 3, descending)
             run        == IF descending
                           THEN Reverse(SubSeq(a, 1, n)) \o SubSeq(a, n + 1, Len(a))
                           ELSE a
         IN  BinarySort(run, n + 1)

(* The lists given to sorted(). *)
SessionLists == UNION { [1..n -> Sessions] : n \in 0..3 }

InitSession ==
    /\ StorageIdle
    /\ objects = <<>>
    /\ synced = NoCall
    /\ _parent = [i \in Institutions |-> "None"]
    /\ _sub_institutions = [i \in Institutions |-> <<>>]
    /\ edited = NoCall
    /\ \/ \E a, b \in Sessions : compared = [op |-> "pair", a |-> a, b |-> b]
       \/ \E l \in SessionLists : compared = [op |-> "list", list |-> l]

Compare ==
    /\ compared # NoCall /\ compared.op = "pair"
    /\ compared' = [op |-> "compared", a |-> compared.a, b |-> compared.b,
                    lt |-> __lt__(compared.a, compared.b),
                    tl |-> __lt__(compared.b, compared.a),
                    eq |-> __eq__(compared.a, compared.b),
                    gt |-> __gt__(compared.a, compared.b),
                    ge |-> __ge__(compared.a, compared.b)]
    /\ UNCHANGED <<objects, synced, _parent, _sub_institutions, edited>>
    /\ StorageUnchanged

Sort ==
    /\ compared # NoCall /\ compared.op = "list"
    /\ compared' = [op |-> "sorted", list |-> compared.list,
                    sorted |-> sorted_sessions(compared.list)]
    /\ UNCHANGED <<objects, synced, _parent, _sub_institutions, edited>>
    /\ StorageUnchanged

NextSession == Compare \/ Sort

SpecSession == InitSession /\ [][NextSession]_vars

(* The triple a session is ordered by: regular before summer, first before *)
(* second before whole. *)
Triple(s) ==
    <<s.year,
      IF s.season = "regular" THEN 1 ELSE 2,
      IF s.subsession = "first" THEN 1 ELSE IF s.subsession = "second" THEN 2 ELSE 3>>

Precedes(x, y) ==
    \E i \in 1..3 : x[i] < y[i] /\ \A j \in 1..(i - 1) : x[j] = y[j]

Was(op) == compared # NoCall /\ compared.op = op

(***************************************************************************)
(* C23: Session.__lt__ is the strict lexicographic order on (year, season, *)
(* subsession): a < b iff a's triple precedes b's, a < a is false, exactly *)
(* one of a < b, a == b, b < a holds, and sorting a list of sessions       *)
(* yields the same sessions in ascending order of the triple.              *)
(***************************************************************************)
C23_StrictLexOrder ==
    /\ Was("compared") =>
           /\ compared.lt <=> Precedes(Triple(compared.a), Triple(compared.b))
           /\ compared.a = compared.b => ~compared.lt
           /\ Cardinality({ x \in { "lt", "eq", "tl" } : compared[x] }) = 1
    /\ Was("sorted") =>
           /\ Len(compared.sorted) = Len(compared.list)
           /\ \A s \in Sessions :
                  Cardinality({ i \in 1..Len(compared.list) : compared.list[i] = s })
                      = Cardinality({ i \in 1..Len(compared.sorted) : compared.sorted[i] = s })
           /\ \A i, j \in 1..Len(compared.sorted) :
                  i < j => ~Precedes(Triple(compared.sorted[j]), Triple(compared.sorted[i]))

C23_Witness ==
    /\ Was("sorted")
    /\ Len(compared.list) = 3
    /\ compared.sorted # compared.list
    /\ compared.sorted # Reverse(compared.list)
    /\ compared.list[1].year = compared.list[2].year
    /\ compared.list[1].season # compared.list[2].season

(***************************************************************************)
(* C30: Session.__gt__ is the mirror of __lt__: a > b iff b < a, so a > a  *)
(* is false and a > b and a < b are never both true; and a >= b iff a > b  *)
(* or a == b.                                                              *)
(***************************************************************************)
C30_GtMirrorsLt ==
    Was("compared") =>
        /\ compared.gt <=> compared.tl
        /\ compared.a = compared.b => ~compared.gt
        /\ ~(compared.gt /\ compared.lt)
        /\ compared.ge <=> (compared.gt \/ compared.eq)

(***************************************************************************)
(* The life of a record.  A record (b, k) is present on a backend when     *)
(* its bucket exists and holds it, and its content is then what the        *)
(* backend's _record_get yields.                                           *)
(***************************************************************************)

Content(be, S, b, k) == _record_get(be, S, b, k)

(* The last call was addressed to the pair (b, k), or to the bucket b. *)
ToPair(b, k) == last.bucket_id = b /\ last.record_id = k

ToBucket(b) == last.bucket_id = b

(* The same for the record that the backend keeps for (b, k): the          *)
(* filesystem backend keeps one record for all the ids of one sanitized    *)
(* form. *)
ToRecordOf(be, b, k) ==
    IF be = "mem" THEN ToPair(b, k)
    ELSE /\ last.bucket_id # None /\ last.record_id # None
         /\ _get_record_path(last.bucket_id, last.record_id) = _get_record_path(b, k)

ToBucketOf(be, b) ==
    IF be = "mem" THEN ToBucket(b)
    ELSE last.bucket_id # None /\ _get_bucket_dir(last.bucket_id) = _get_bucket_dir(b)

(***************************************************************************)
(* C24 (as stated): over any sequence of operations a record (b, k) goes   *)
(* from absent to present only by a successful put(b, k, v); the content   *)
(* of a present record changes only by a successful put(b, k, v,           *)
(* overwrite=True); it goes from present to absent only by delete(b, k),   *)
(* clear(b), delete_bucket(b) or delete_all_buckets.  No other operation   *)
(* and no operation addressed to another pair makes any such transition.   *)
(***************************************************************************)
C24_LifecycleOfThePair ==
    \A be \in Backends : \A b \in BucketIds, k \in RecordIds :
        LET was == HasRecord(be, Pre(be), b, k)
            is  == HasRecord(be, St(be), b, k)
        IN  /\ (~was /\ is) =>
                   last.op = "put" /\ ToPair(b, k) /\ Res(be) = RetBool(TRUE)
            /\ (was /\ is /\ Content(be, St(be), b, k) # Content(be, Pre(be), b, k)) =>
                   /\ last.op = "put" /\ ToPair(b, k)
                   /\ last.overwrite /\ Res(be) = RetBool(TRUE)
            /\ (was /\ ~is) =>
                   \/ last.op = "delete" /\ ToPair(b, k)
                   \/ last.op \in { "clear", "delete_bucket" } /\ ToBucket(b)
                   \/ last.op = "delete_all_buckets"

(***************************************************************************)
(* C24 (amended): the same transitions, caused only by the same            *)
(* operations, where on the filesystem backend an operation is addressed   *)
(* to the record (b, k) when its bucket id and record id have the          *)
(* sanitized forms of b and k, and to the bucket b when its bucket id has  *)
(* the sanitized form of b: a put, delete, clear or delete_bucket under a  *)
(* colliding id acts on the one record kept for all of them.               *)
(***************************************************************************)
C24_Lifecycle ==
    \A be \in Backends : \A b \in BucketIds, k \in RecordIds :
        LET was == HasRecord(be, Pre(be), b, k)
            is  == HasRecord(be, St(be), b, k)
        IN  /\ (~was /\ is) =>
                   last.op = "put" /\ ToRecordOf(be, b, k) /\ Res(be) = RetBool(TRUE)
            /\ (was /\ is /\ Content(be, St(be), b, k) # Content(be, Pre(be), b, k)) =>
                   /\ last.op = "put" /\ ToRecordOf(be, b, k)
                   /\ last.overwrite /\ Res(be) = RetBool(TRUE)
            /\ (was /\ ~is) =>
                   \/ last.op = "delete" /\ ToRecordOf(be, b, k)
                   \/ last.op \in { "clear", "delete_bucket" } /\ ToBucketOf(be, b)
                   \/ last.op = "delete_all_buckets"

(* A record present on both backends has just been given another content. *)
C24_Witness ==
    /\ last.op = "put" /\ last.overwrite
    /\ \A be \in Backends :
           /\ HasRecord(be, Pre(be), last.bucket_id, last.record_id)
           /\ Res(be) = RetBool(TRUE)
           /\ Content(be, St(be), last.bucket_id, last.record_id)
                  # Content(be, Pre(be), last.bucket_id, last.record_id)

(***************************************************************************)
(* The primitives a public operation invokes.  Each Calls_ operator        *)
(* follows the control flow of the operation of that name in               *)
(* BaseRecordStorage and yields, in order, the primitives it invokes, each *)
(* with its arguments and the state st of the storage at the invocation.   *)
(***************************************************************************)

Invocation(prim, S, bucket_id, record_id, overwrite) ==
    [prim |-> prim, st |-> S, bucket_id |-> bucket_id, record_id |-> record_id,
     overwrite |-> overwrite]

Calls_make_bucket(be, S, bucket_id, uuid) ==
    LET id == IF bucket_id = None THEN uuid ELSE bucket_id
    IN  IF bucket_exists(be, S, id).tag = "True" THEN <<>>
        ELSE <<Invocation("_bucket_new", S, id, None, FALSE)>>

Calls_delete_bucket(be, S, bucket_id) ==
    IF bucket_exists(be, S, bucket_id).tag # "True" THEN <<>>
    ELSE <<Invocation("_bucket_del", S, bucket_id, None, FALSE)>>

RECURSIVE Calls_DeleteEach(_, _, _)
Calls_DeleteEach(be, S, ids) ==
    IF ids = {} THEN <<>>
    ELSE LET bucket_id == CHOOSE x \in ids : TRUE
         IN  Calls_delete_bucket(be, S, bucket_id)
                 \o Calls_DeleteEach(be, delete_bucket(be, S, bucket_id).st,
                                     ids \ {bucket_id})

Calls_delete_all_buckets(be, S) ==
    LET l == get_buckets(be, S)
    IN  IF IsRaise(l) THEN <<>> ELSE Calls_DeleteEach(be, S, l.ids)

Calls_clear(be, S, bucket_id) ==
    IF bucket_exists(be, S, bucket_id).tag # "True" THEN <<>>
    ELSE <<Invocation("_bucket_clear", S, bucket_id, None, FALSE)>>

Calls_get(be, S, bucket_id, record_id) ==
    IF record_exists(be, S, bucket_id, record_id).tag # "True" THEN <<>>
    ELSE <<Invocation("_record_get", S, bucket_id, record_id, FALSE)>>

Calls_get_all(be, S, bucket_id) ==
    IF bucket_exists(be, S, bucket_id).tag # "True" THEN <<>>
    ELSE <<Invocation("_bucket_get", S, bucket_id, None, FALSE)>>

Calls_put(be, S, bucket_id, record_id, overwrite, auto_create) ==
    IF bucket_exists(be, S, bucket_id).tag # "True"
    THEN IF auto_create
         THEN LET m == make_bucket(be, S, bucket_id, None)
              IN  Calls_make_bucket(be, S, bucket_id, None)
                      \o (IF IsRaise(m.out) THEN <<>>
                          ELSE <<Invocation("_record_put", m.st, bucket_id,
                                            record_id, overwrite)>>)
         ELSE <<>>
    ELSE <<Invocation("_record_put", S, bucket_id, record_id, overwrite)>>

(* Mutant: the existence of the record is not checked first. *)
Calls_delete_Unchecked(be, S, bucket_id, record_id) ==
    <<Invocation("_record_del", S, bucket_id, record_id, FALSE)>>

Calls_delete(be, S, bucket_id, record_id) ==
    IF record_exists(be, S, bucket_id, record_id).tag # "True" THEN <<>>
    ELSE <<Invocation("_record_del", S, bucket_id, record_id, FALSE)>>

(* The primitives the last call invoked on a backend. *)
Invoked(be) ==
    LET S == Pre(be)
        b == last.bucket_id
        k == last.record_id
    IN  CASE last.op = "make_bucket" ->
                Calls_make_bucket(be, S, b, CHOOSE u \in UuidHex : TRUE)
          [] last.op = "delete_bucket" -> Calls_delete_bucket(be, S, b)
          [] last.op = "delete_all_buckets" -> Calls_delete_all_buckets(be, S)
          [] last.op = "clear" -> Calls_clear(be, S, b)
          [] last.op = "get" -> Calls_get(be, S, b, k)
          [] last.op = "get_all" -> Calls_get_all(be, S, b)
          [] last.op = "put" ->
                Calls_put(be, S, b, k, last.overwrite, last.auto_create)
          [] last.op = "delete" -> Calls_delete(be, S, b, k)
          [] OTHER -> <<>>

(* What the base contract has verified when it invokes a primitive. *)
Verified(be, c) ==
    /\ c.prim = "_bucket_new" => ~HasBucket(be, c.st, c.bucket_id)
    /\ c.prim \in { "_bucket_del", "_bucket_clear", "_bucket_get", "_record_put" } =>
           HasBucket(be, c.st, c.bucket_id)
    /\ c.prim \in { "_record_get", "_record_del" } =>
           HasRecord(be, c.st, c.bucket_id, c.record_id)

(***************************************************************************)
(* C25 (as stated): the base contract invokes a primitive only after       *)
(* verifying its precondition: _bucket_new only when the bucket is absent; *)
(* _bucket_del, _bucket_clear and _bucket_get only when the bucket exists; *)
(* _record_get and _record_del only when bucket and record exist; and      *)
(* _record_put only when the bucket exists and the write is known to be    *)
(* permitted: the record is absent or overwrite is true.                   *)
(***************************************************************************)
C25_WritePermittedBeforePut ==
    \A be \in Backends : \A i \in 1..Len(Invoked(be)) :
        LET c == Invoked(be)[i]
        IN  /\ Verified(be, c)
            /\ c.prim = "_record_put" =>
                   (~HasRecord(be, c.st, c.bucket_id, c.record_id) \/ c.overwrite)

(***************************************************************************)
(* C25 (amended): the base contract invokes _bucket_new only when the      *)
(* bucket is absent; _bucket_del, _bucket_clear and _bucket_get only when  *)
(* the bucket exists; _record_get and _record_del only when bucket and     *)
(* record exist; and _record_put whenever the bucket exists, whether or    *)
(* not the record is there: the overwrite check is made by the primitive,  *)
(* which returns False without writing for a present record and            *)
(* overwrite=False.                                                        *)
(***************************************************************************)
C25_PrimitivePreconditions ==
    \A be \in Backends :
        /\ \A i \in 1..Len(Invoked(be)) : Verified(be, Invoked(be)[i])
        /\ \A i \in 1..Len(Invoked(be)) :
               LET c == Invoked(be)[i]
               IN  (/\ c.prim = "_record_put"
                    /\ HasRecord(be, c.st, c.bucket_id, c.record_id)
                    /\ ~c.overwrite)
                       => Res(be) = RetBool(FALSE) /\ St(be) = c.st

(* _record_put is invoked on both backends for a present record without    *)
(* overwrite. *)
C25_Witness ==
    /\ last.op = "put" /\ ~last.overwrite
    /\ \A be \in Backends :
           /\ HasRecord(be, Pre(be), last.bucket_id, last.record_id)
           /\ Len(Invoked(be)) = 1
           /\ Invoked(be)[1].prim = "_record_put"
           /\ Res(be) = RetBool(FALSE)

(***************************************************************************)
(* The read views of one storage, taken together in one state.             *)
(***************************************************************************)

(* record_exists(b, k) answered true. *)
SaysExists(be, S, b, k) == record_exists(be, S, b, k).tag = "True"

(* get(b, k) returned a record. *)
Gets(be, S, b, k) == get(be, S, b, k).out.tag = "record"

(* k, as the caller supplied it, is a key of get_all(b) and the value      *)
(* under it is what get(b, k) returns.                                     *)
ListedByGetAll(be, S, b, k) ==
    LET all == get_all(be, S, b).out
    IN  /\ all.tag = "mapping"
        /\ k \in DOMAIN all.recs
        /\ all.recs[k] = get(be, S, b, k).out.rec

(* b, as the caller supplied it, is one of the ids get_buckets() returns. *)
ListedByGetBuckets(be, S, b) ==
    LET ids == get_buckets(be, S)
    IN  ids.tag = "list" /\ b \in ids.ids

(***************************************************************************)
(* C26: in every reachable state of either backend and for all ids b and   *)
(* k as the caller supplies them, record_exists(b, k) is true iff          *)
(* get(b, k) returns a record iff bucket b exists and k is a key of        *)
(* get_all(b) whose value equals get(b, k); and a record is present only   *)
(* in a bucket that exists and that get_buckets() lists.                   *)
(***************************************************************************)
C26_ReadViewsAgree ==
    \A be \in Backends : \A b \in BucketIds : \A k \in RecordIds :
        /\ SaysExists(be, St(be), b, k) <=> Gets(be, St(be), b, k)
        /\ Gets(be, St(be), b, k) <=>
               (HasBucket(be, St(be), b) /\ ListedByGetAll(be, St(be), b, k))
        /\ SaysExists(be, St(be), b, k) =>
               (HasBucket(be, St(be), b) /\ ListedByGetBuckets(be, St(be), b))

(***************************************************************************)
(* Reads.                                                                  *)
(***************************************************************************)

(* The operations that only look at the storage. *)
ReadOps == { "get", "get_all", "get_buckets", "bucket_exists", "record_exists" }

(* The last call was a read that addressed a bucket missing on both       *)
(* backends, or a record missing from an existing bucket.                 *)
ReadOfMissing ==
    /\ last.op \in { "get", "get_all", "bucket_exists", "record_exists" }
    /\ \/ \A be \in Backends : ~HasBucket(be, Pre(be), last.bucket_id)
       \/ /\ last.op \in { "get", "record_exists" }
          /\ \A be \in Backends :
                /\ HasBucket(be, Pre(be), last.bucket_id)
                /\ ~HasRecord(be, Pre(be), last.bucket_id, last.record_id)

(***************************************************************************)
(* C27: get, get_all, get_buckets, bucket_exists and record_exists leave   *)
(* the storage of either backend exactly as it was, whatever they return   *)
(* or raise and whether or not the bucket or record they address exists:   *)
(* no bucket or record is created, removed or changed by a read.           *)
(***************************************************************************)
C27_ReadsArePure ==
    last.op \in ReadOps => \A be \in Backends : St(be) = Pre(be)

(* A read of a missing bucket on a storage that holds a record: the       *)
(* bucket is still missing and the stored record is still there.          *)
C27_Witness ==
    /\ last.op \in { "get", "get_all" }
    /\ ReadOfMissing
    /\ \A be \in Backends :
          /\ ~HasBucket(be, Pre(be), last.bucket_id)
          /\ ~HasBucket(be, St(be), last.bucket_id)
          /\ \E b \in BucketIds, k \in RecordIds : HasRecord(be, St(be), b, k)
          /\ St(be) = Pre(be)

(***************************************************************************)
(* delete_all_buckets, step by step, next to a concurrent caller.          *)
(*                                                                         *)
(* base.py 68-69 is a for loop over the list get_buckets() returned: the   *)
(* list is built once (list(self._buckets.keys()), a list comprehension    *)
(* over iterdir()), then delete_bucket is called for each of its entries.  *)
(* Between two of these calls another thread may call make_bucket or put.  *)
(* callers is the thread inside delete_all_buckets of the backend be: its  *)
(* position pc, the list it obtained (snapshot), the entries still to      *)
(* visit (todo), what it returned (ret), and what the other thread did     *)
(* since the list was obtained: the buckets it created (made) and the      *)
(* records it stored in them (kept).                                       *)
(***************************************************************************)

Deleter(be) ==
    [be |-> be, pc |-> "get_buckets", snapshot |-> {}, todo |-> {},
     made |-> {}, kept |-> EmptyDict, ret |-> RetNone]

(* The name get_buckets() lists a bucket under. *)
Listed(be, bucket_id) == IF be = "mem" THEN bucket_id ELSE _get_bucket_dir(bucket_id)

RECURSIVE Filled(_, _, _)
(* A storage holding the buckets ids, each with one record. *)
Filled(be, S, ids) ==
    IF ids = {}
    THEN S
    ELSE LET bucket_id == CHOOSE x \in ids : TRUE
         IN  Filled(be,
                    put(be, S, bucket_id, <<"k">>, RecBob, FALSE, TRUE).st,
                    ids \ {bucket_id})

InitDeleteAll ==
    /\ last = Call("init", None, None, NoRecord, FALSE, FALSE, RetNone, RetNone)
    /\ nops = 0
    /\ io = "reliable"
    /\ hashing = NoHashing
    /\ ModelsIdle
    /\ \E be \in Backends, ids \in SUBSET BucketIds :
        /\ callers = Deleter(be)
        /\ IF be = "mem"
           THEN /\ buckets = Filled("mem", EmptyDict, ids)
                /\ disk = [root |-> TRUE, dirs |-> EmptyDict]
           ELSE /\ buckets = EmptyDict
                /\ disk \in { Filled("fs", [root |-> TRUE, dirs |-> EmptyDict], ids),
                              [root |-> FALSE, dirs |-> EmptyDict] }
    /\ prev = [buckets |-> buckets, disk |-> disk, io |-> io]

(* The storage of the backend in use becomes S. *)
Becomes(be, S) ==
    IF be = "mem"
    THEN buckets' = S /\ UNCHANGED disk
    ELSE disk' = S /\ UNCHANGED buckets

(* base.py 68: self.get_buckets() is evaluated once, before the loop. *)
TakeSnapshot ==
    LET c == callers
        l == get_buckets(c.be, St(c.be))
    IN  /\ c.pc = "get_buckets"
        /\ callers' = IF IsRaise(l)
                      THEN [c EXCEPT !.pc = "done", !.ret = l]
                      ELSE [c EXCEPT !.pc = "loop", !.snapshot = l.ids, !.todo = l.ids]
        /\ UNCHANGED <<buckets, disk, last, prev, nops, io, hashing, models>>

(* Mutant: the buckets are listed again before every deletion. *)
Remaining_Relisted(be, S, c) ==
    LET l == get_buckets(be, S) IN IF IsRaise(l) THEN {} ELSE l.ids

(* The entries of the list the loop has not visited yet. *)
Remaining(be, S, c) == c.todo

(* base.py 69: self.delete_bucket(bucket_id) for the next entry. *)
DeleteNext ==
    LET c == callers
    IN  /\ c.pc = "loop"
        /\ \E bucket_id \in Remaining(c.be, St(c.be), c) :
            /\ Becomes(c.be, delete_bucket(c.be, St(c.be), bucket_id).st)
            /\ callers' = [c EXCEPT !.todo = c.todo \ {bucket_id}]
        /\ UNCHANGED <<last, prev, nops, io, hashing, models>>

(* The loop is exhausted: delete_all_buckets returns None. *)
Return ==
    LET c == callers
    IN  /\ c.pc = "loop"
        /\ Remaining(c.be, St(c.be), c) = {}
        /\ callers' = [c EXCEPT !.pc = "done", !.ret = RetNone]
        /\ UNCHANGED <<buckets, disk, last, prev, nops, io, hashing, models>>

(* Another thread calls make_bucket while delete_all_buckets is in its     *)
(* loop (what it did before the list was obtained is part of the initial   *)
(* storage).                                                               *)
OtherMakeBucket ==
    LET c == callers
    IN  /\ c.pc = "loop"
        /\ \E bucket_id \in BucketIds :
            LET m == make_bucket(c.be, St(c.be), bucket_id, None)
            IN  /\ ~IsRaise(m.out)
                /\ Becomes(c.be, m.st)
                /\ callers' = [c EXCEPT !.made = c.made \cup {bucket_id},
                                        !.kept = DictSet(c.kept, bucket_id, EmptyDict)]
        /\ UNCHANGED <<last, prev, nops, io, hashing, models>>

(* Another thread calls put(..., auto_create=True) while delete_all_buckets *)
(* is in its loop.                                                         *)
OtherPut ==
    LET c == callers
    IN  /\ c.pc = "loop"
        /\ \E bucket_id \in BucketIds, record_id \in RecordIds, record \in Records :
            LET created == ~HasBucket(c.be, St(c.be), bucket_id)
                p       == put(c.be, St(c.be), bucket_id, record_id, record, FALSE, TRUE)
                made    == IF created THEN c.made \cup {bucket_id} ELSE c.made
                before  == IF created \/ bucket_id \notin DOMAIN c.kept
                           THEN EmptyDict ELSE c.kept[bucket_id]
            IN  /\ p.out.tag = "True"
                /\ Becomes(c.be, p.st)
                /\ callers' = IF bucket_id \in made
                              THEN [c EXCEPT !.made = made,
                                             !.kept = DictSet(c.kept, bucket_id,
                                                        DictSet(before, record_id, record))]
                              ELSE c
        /\ UNCHANGED <<last, prev, nops, io, hashing, models>>

NextDeleteAll ==
    \/ TakeSnapshot
    \/ DeleteNext
    \/ Return
    \/ OtherMakeBucket
    \/ OtherPut

SpecDeleteAll == InitDeleteAll /\ [][NextDeleteAll]_vars

(* delete_all_buckets has returned without raising. *)
Returned == callers # NoCallers /\ callers.pc = "done" /\ callers.ret = RetNone

(* The buckets the other thread created since the list was obtained under  *)
(* a name that is not on the list.                                         *)
MadeAside ==
    { b \in callers.made : Listed(callers.be, b) \notin callers.snapshot }

(* The listed names under which the other thread created a bucket again. *)
MadeAgain ==
    { Listed(callers.be, b) : b \in callers.made } \cap callers.snapshot

(***************************************************************************)
(* C28: delete_all_buckets deletes the buckets of the one list that        *)
(* get_buckets() returned when it started, one delete_bucket at a time.    *)
(* When it returns, every listed bucket that was not created again is      *)
(* gone, while every bucket another thread created after the list was      *)
(* obtained still exists with the records that thread stored in it.        *)
(***************************************************************************)
C28_SnapshotDeletion ==
    Returned =>
        LET be == callers.be
        IN  /\ callers.todo = {}
            /\ \A d \in callers.snapshot \ MadeAgain : ~HasBucket(be, St(be), d)
            /\ \A b \in callers.made :
                /\ HasBucket(be, St(be), b)
                /\ \A k \in DOMAIN callers.kept[b] :
                    get(be, St(be), b, k).out
                        = RetRecord(Stored(be, callers.kept[b][k]))

(* delete_all_buckets has returned after deleting a listed bucket, and a   *)
(* bucket created meanwhile holds a record.                                *)
C28_Witness ==
    /\ Returned
    /\ callers.snapshot # {}
    /\ \E b \in MadeAside :
        /\ callers.kept[b] # EmptyDict
        /\ \E k \in DOMAIN callers.kept[b] : HasRecord(callers.be, St(callers.be), b, k)

=============================================================================
